---- MODULE Spec2Model ----
(***************************************************************************)
(* TPL adoption metrics: the in-page analyzer of tpl-analyzer.js           *)
(* (TPLAnalyzer.analyzePage: detect, calculateViewportCoverage,            *)
(* getComponentSummary) and the stand-alone collector of                   *)
(* scripts/collect-coverage.js (detectTPLElements and its viewport pass),   *)
(* specification Spec; the run of MultiViewportDataCollector in            *)
(* scripts/collect-data-multiview.js with its cross-viewport analysis and  *)
(* daily summary, specification CollectorSpec; the two formatters of       *)
(* tpl-analyzer.js, specification FormatterSpec; the daily summary of the  *)
(* single-viewport collector of scripts/collect-data.js, specification     *)
(* SummarySpec; main() of scripts/collect-coverage.js with                 *)
(* collectCoverageData and sendToAPI, specification CoverageRunSpec; the   *)
(* coverage API (handler, handlePost, handleGet, storeInDatabase),         *)
(* specification ApiSpec; and the LocalTesting loop, specification         *)
(* LoopSpec.                                                               *)
(*                                                                         *)
(* Geometry.  getBoundingClientRect() yields fractional CSS pixels; a DOM  *)
(* rectangle is kept here in HALF pixels (left, top, width, height are     *)
(* integers counting halves), so a raw area is an integer number of        *)
(* QUARTER square pixels and Math.round is a real rounding.  Scroll        *)
(* offsets, window sizes and document scroll sizes are whole pixels.       *)
(*                                                                         *)
(* Numbers.  A JavaScript number that comes out of a division is a record  *)
(* [kind, num, den]: kind "fin" with num/den in lowest terms, or           *)
(* "Infinity", or "NaN".                                                   *)
(***************************************************************************)
EXTENDS Integers, Sequences, FiniteSets, TLC

VARIABLES pc, dom, win, doc, elements, totalArea, totalCoveragePercent,
          elementCount, visibleTPLArea, viewportCoverage, components,
          result, coverageData,
          browser, analyzer, config, step, pageIndex, viewportIndex, page, openPages,
          viewportResults, results, savedFiles, summary,
          formatInput, pageSummary, detailedData,
          dataStep, dataConfig, dataResults, dailySummary,
          mainStep, targetUrl, apiEndpoint, openedPage, returned, apiPosts, localFiles,
          databaseUrl, coverageDataStore, database, generated, handled, exchange,
          loopStep, isRunning, runCount, spawnCalls, children, ticks, lastTick, lastCode

\* the in-page analyzer and the page it runs in
analyzerVars == <<pc, dom, win, doc, elements, totalArea, totalCoveragePercent,
                  elementCount, visibleTPLArea, viewportCoverage, components,
                  result, coverageData>>

\* the MultiViewportDataCollector of collect-data-multiview.js
collectorVars == <<browser, analyzer, config, step, pageIndex, viewportIndex, page,
                   openPages, viewportResults, results, savedFiles, summary>>

\* the arguments and the results of the two formatters
formatterVars == <<formatInput, pageSummary, detailedData>>

\* the DataCollector of collect-data.js around generateDailySummary
summaryVars == <<dataStep, dataConfig, dataResults, dailySummary>>

\* main() of collect-coverage.js with its TPLCoverageCollector
coverageRunVars == <<mainStep, targetUrl, apiEndpoint, openedPage, returned, apiPosts,
                     localFiles>>

\* the coverage API: its environment, its module-level store, the table of
\* the database, and the request being answered
apiVars == <<databaseUrl, coverageDataStore, database, generated, handled, exchange>>

\* the LocalTesting loop, the child processes it has spawned and its timer
loopVars == <<loopStep, isRunning, runCount, spawnCalls, children, ticks, lastTick, lastCode>>

\* the other scripts
scriptVars == <<summaryVars, coverageRunVars, apiVars, loopVars>>

vars == <<analyzerVars, collectorVars, formatterVars, scriptVars>>

-----------------------------------------------------------------------------
(* Bounds and program constants *)

MaxElems == 2

TopN == 3

-----------------------------------------------------------------------------
(* Arithmetic *)

Max(a, b) == IF a >= b THEN a ELSE b

Min(a, b) == IF a <= b THEN a ELSE b

RECURSIVE GCD(_, _)
GCD(a, b) == IF b = 0 THEN a ELSE GCD(b, a % b)

NaN == [kind |-> "NaN", num |-> 0, den |-> 0]

Infinity == [kind |-> "Infinity", num |-> 1, den |-> 0]

Fin(n, d) == LET g == GCD(n, d) IN [kind |-> "fin", num |-> n \div g, den |-> d \div g]

Zero == [kind |-> "fin", num |-> 0, den |-> 1]

\* a / b for integers a >= 0, b >= 0, as JavaScript evaluates it
JSDiv(a, b) ==
    IF b = 0 THEN (IF a = 0 THEN NaN ELSE Infinity)
    ELSE IF a = 0 THEN Zero ELSE Fin(a, b)

\* Math.round(n / d) for integers n and d > 0: floor(n/d + 1/2)
RoundDiv(n, d) == (2 * n + d) \div (2 * d)

\* Math.round(v * 10) / 10
RoundTenths(v) ==
    IF v.kind = "fin" THEN JSDiv(RoundDiv(v.num * 10, v.den), 10) ELSE v

\* parseFloat(v.toFixed(2))
ToFixed2(v) ==
    IF v.kind = "fin" THEN JSDiv(RoundDiv(v.num * 100, v.den), 100) ELSE v

\* Math.round(v * 100) / 100
RoundHundredths(v) ==
    IF v.kind = "fin" THEN JSDiv(RoundDiv(v.num * 100, v.den), 100) ELSE v

NegInfinity == [kind |-> "-Infinity", num |-> -1, den |-> 0]

\* the number n, an integer
Num(n) == [kind |-> "fin", num |-> n, den |-> 1]

\* a + b
JSAdd(a, b) ==
    IF a.kind = "NaN" \/ b.kind = "NaN" THEN NaN
    ELSE IF a.kind = "fin" /\ b.kind = "fin"
         THEN LET g == GCD(a.den, b.den)
              IN  Fin(a.num * (b.den \div g) + b.num * (a.den \div g),
                      (a.den \div g) * b.den)
    ELSE IF a.kind = "fin" THEN b
    ELSE IF b.kind = "fin" \/ a.kind = b.kind THEN a
    ELSE NaN

\* -a
JSNeg(a) ==
    IF a.kind = "fin" THEN [a EXCEPT !.num = -a.num]
    ELSE IF a.kind = "Infinity" THEN NegInfinity
    ELSE IF a.kind = "-Infinity" THEN Infinity
    ELSE NaN

\* a - b
JSSub(a, b) == JSAdd(a, JSNeg(b))

\* Math.pow(a, 2)
JSSquare(a) ==
    IF a.kind = "NaN" THEN NaN
    ELSE IF a.kind = "fin" THEN Fin(a.num * a.num, a.den * a.den)
    ELSE Infinity

\* a / n for an integer n > 0
JSDivBy(a, n) == IF a.kind = "fin" THEN Fin(a.num, a.den * n) ELSE a

\* a < b
JSLess(a, b) ==
    IF a.kind = "NaN" \/ b.kind = "NaN" THEN FALSE
    ELSE IF a.kind = "fin" /\ b.kind = "fin" THEN a.num * b.den < b.num * a.den
    ELSE IF a.kind = b.kind THEN FALSE
    ELSE a.kind = "-Infinity" \/ b.kind = "Infinity"

\* Math.max(a, b)
JSMax(a, b) ==
    IF a.kind = "NaN" \/ b.kind = "NaN" THEN NaN ELSE IF JSLess(a, b) THEN b ELSE a

\* Math.min(a, b)
JSMin(a, b) ==
    IF a.kind = "NaN" \/ b.kind = "NaN" THEN NaN ELSE IF JSLess(b, a) THEN b ELSE a

\* numbers.reduce((a, b) => a + b, 0)
RECURSIVE SumOf(_)
SumOf(numbers) ==
    IF numbers = <<>> THEN Zero
    ELSE JSAdd(SumOf(SubSeq(numbers, 1, Len(numbers) - 1)), numbers[Len(numbers)])

\* Math.max(...numbers) of a non-empty array
RECURSIVE MaxOf(_)
MaxOf(numbers) ==
    IF Len(numbers) = 1 THEN numbers[1]
    ELSE JSMax(MaxOf(SubSeq(numbers, 1, Len(numbers) - 1)), numbers[Len(numbers)])

\* Math.min(...numbers) of a non-empty array
RECURSIVE MinOf(_)
MinOf(numbers) ==
    IF Len(numbers) = 1 THEN numbers[1]
    ELSE JSMin(MinOf(SubSeq(numbers, 1, Len(numbers) - 1)), numbers[Len(numbers)])

-----------------------------------------------------------------------------
(* Strings *)

\* String.prototype.indexOf, 0-based, -1 when absent
IndexOf(s, sub) ==
    LET hits == {i \in 1..(Len(s) - Len(sub) + 1) : SubSeq(s, i, i + Len(sub) - 1) = sub}
    IN  IF hits = {} THEN -1
        ELSE (CHOOSE i \in hits : \A j \in hits : i <= j) - 1

\* String.prototype.includes
Includes(s, sub) == IndexOf(s, sub) > -1

\* String.prototype.split(' ')
RECURSIVE Split(_)
Split(s) ==
    LET i == IndexOf(s, " ")
    IN  IF i = -1 THEN <<s>>
        ELSE <<SubSeq(s, 1, i)>> \o Split(SubSeq(s, i + 2, Len(s)))

\* String.prototype.replace(pat, '') with a string pattern: first occurrence only
ReplaceFirst(s, pat) ==
    LET i == IndexOf(s, pat)
    IN  IF i = -1 THEN s
        ELSE SubSeq(s, 1, i) \o SubSeq(s, i + 1 + Len(pat), Len(s))

\* String.prototype.startsWith
StartsWith(s, p) == Len(s) >= Len(p) /\ SubSeq(s, 1, Len(p)) = p

-----------------------------------------------------------------------------
(* The rendered page: what the browser hands to the in-page script *)

\* bounding client rectangles, in half pixels: a 10 x 10 box at the origin,
\* a fractional box hanging over the top left corner, a box right of the window,
\* and an empty box
RectA == [left |-> 0,  top |-> 0,  width |-> 20, height |-> 20]

RectB == [left |-> -3, top |-> -3, width |-> 9,  height |-> 7]

RectC == [left |-> 40, top |-> 0,  width |-> 10, height |-> 10]

RectZ == [left |-> -6, top |-> 4,  width |-> 0,  height |-> 8]

\* class attribute values found on the page, with where the element sits
Placements ==
    { <<"tpl-card foo", RectA>>, <<"tpl-card foo", RectB>>, <<"tpl-card foo", RectZ>>,
      <<"tpl-btn", RectA>>,
      <<"tpl-card tpl-btn", RectA>>,
      <<"xtpl-btn tpl-lb", RectB>>,
      <<"tpl-lb tpl-lb", RectA>>, <<"tpl-lb tpl-lb", RectB>>,
      <<"tpl-nav tpl-lbl tpl-card", RectA>>, <<"tpl-nav tpl-lbl tpl-card", RectC>>,
      <<"foo", RectA>>,
      <<"tpl-close  tpl-coverage", RectB>>,
      <<"tpl-hero", RectC>>, <<"tpl-hero", RectB>> }

\* an element of querySelectorAll('*'); an SVG element's className is an
\* SVGAnimatedString, not a string
Descriptors ==
    { [tagName |-> "DIV", id |-> "", classIsString |-> TRUE,
       className |-> p[1], rect |-> p[2]] : p \in Placements }
    \cup
    { [tagName |-> "svg", id |-> "logo", classIsString |-> FALSE, className |-> "tpl-card",
       rect |-> RectA] }

RECURSIVE SeqsUpTo(_, _)
SeqsUpTo(S, n) ==
    IF n = 0 THEN {<<>>}
    ELSE LET shorter == SeqsUpTo(S, n - 1)
         IN  shorter \cup {Append(q, x) : q \in {r \in shorter : Len(r) = n - 1}, x \in S}

Snapshots == SeqsUpTo(Descriptors, MaxElems)

\* window.innerWidth/innerHeight/scrollX/scrollY and the document's scroll
\* sizes, in whole pixels
Environments ==
    { [win |-> [innerWidth |-> 12, innerHeight |-> 8, scrollX |-> 0, scrollY |-> 0],
       doc |-> [bodyScrollHeight |-> 15, docScrollHeight |-> 12,
                bodyScrollWidth |-> 8, docScrollWidth |-> 10]],
      [win |-> [innerWidth |-> 12, innerHeight |-> 8, scrollX |-> 3, scrollY |-> 1],
       doc |-> [bodyScrollHeight |-> 15, docScrollHeight |-> 12,
                bodyScrollWidth |-> 8, docScrollWidth |-> 10]],
      [win |-> [innerWidth |-> 12, innerHeight |-> 8, scrollX |-> 0, scrollY |-> 0],
       doc |-> [bodyScrollHeight |-> 15, docScrollHeight |-> 12,
                bodyScrollWidth |-> 0, docScrollWidth |-> 0]],
      [win |-> [innerWidth |-> 0, innerHeight |-> 8, scrollX |-> 0, scrollY |-> 0],
       doc |-> [bodyScrollHeight |-> 15, docScrollHeight |-> 12,
                bodyScrollWidth |-> 8, docScrollWidth |-> 10]],
      [win |-> [innerWidth |-> 12, innerHeight |-> 0, scrollX |-> 0, scrollY |-> 0],
       doc |-> [bodyScrollHeight |-> 15, docScrollHeight |-> 12,
                bodyScrollWidth |-> 8, docScrollWidth |-> 10]] }

\* Math.max(body.scrollHeight || 0, documentElement.scrollHeight || 0) *
\* Math.max(body.scrollWidth || 0, documentElement.scrollWidth || 0)
PageArea(d) ==
    Max(d.bodyScrollHeight, d.docScrollHeight) * Max(d.bodyScrollWidth, d.docScrollWidth)

\* rect.right, rect.bottom of a DOMRect
Right(r) == r.left + r.width

Bottom(r) == r.top + r.height

-----------------------------------------------------------------------------
(* tpl-analyzer.js: the analyzer object injected by TPLAnalyzer.analyzePage *)

\* variant: the button class left out of the list
AnalyzerExcludedWithoutBtn == {"tpl-bottombar", "tpl-coverage", "tpl-close"}

\* the instrumentation's own classes
AnalyzerExcluded == {"tpl-bottombar", "tpl-coverage", "tpl-btn", "tpl-close"}

\* the test on the whole class attribute
ElementGuard(el) ==
    /\ el.classIsString
    /\ IndexOf(el.className, "tpl") > -1
    /\ \A e \in AnalyzerExcluded : ~Includes(el.className, e)

\* the test of cls.split(' ').filter(...)
TokenQualifies(c) ==
    /\ IndexOf(c, "tpl") > -1
    /\ \A e \in AnalyzerExcluded : ~Includes(c, e)

MatchedClasses(el) == SelectSeq(Split(el.className), TokenQualifies)

\* the object pushed on this.elements; n is this.elements.length before the push
MakeElement(el, classes, n, w) ==
    [ id         |-> IF el.id # "" THEN el.id ELSE "element-" \o ToString(n),
      tagName    |-> el.tagName,
      classes    |-> classes,
      position   |-> [ x      |-> (el.rect.left + 2 * w.scrollX + 1) \div 2,
                       y      |-> (el.rect.top + 2 * w.scrollY + 1) \div 2,
                       width  |-> (el.rect.width + 1) \div 2,
                       height |-> (el.rect.height + 1) \div 2 ],
      area       |-> (el.rect.width * el.rect.height + 2) \div 4,
      isVisible  |-> el.rect.width > 0 /\ el.rect.height > 0,
      inViewport |-> /\ Bottom(el.rect) > 0
                     /\ el.rect.top < 2 * w.innerHeight
                     /\ Right(el.rect) > 0
                     /\ el.rect.left < 2 * w.innerWidth ]

\* variant: the new element put in front of the list
PushFront(elems, x) == <<x>> \o elems

\* this.elements.push(...)
Push(elems, x) == Append(elems, x)

\* all.forEach(...) of detect: the elements pushed and the raw area summed
\* (quarter square pixels), scanning d from index i
RECURSIVE DetectScan(_, _, _, _, _)
DetectScan(d, w, i, elems, total) ==
    IF i > Len(d) THEN [elements |-> elems, totalArea |-> total]
    ELSE LET el == d[i]
             classes == MatchedClasses(el)
         IN  IF ElementGuard(el) /\ Len(classes) > 0
             THEN DetectScan(d, w, i + 1,
                             Push(elems, MakeElement(el, classes, Len(elems), w)),
                             total + el.rect.width * el.rect.height)
             ELSE DetectScan(d, w, i + 1, elems, total)

\* variant: the quotient turned over
PercentOfPageInverted(total, pageArea) == JSDiv(4 * pageArea * 100, total)

\* totalArea / pageArea * 100, totalArea in quarter square pixels
PercentOfPage(total, pageArea) == JSDiv(total * 100, 4 * pageArea)

\* variant: the percentage clamped to 100
CoveragePercentCapped(total, pageArea) ==
    IF total > 0
    THEN (IF total > 4 * pageArea /\ pageArea > 0 THEN Fin(100, 1)
          ELSE JSDiv(total * 100, 4 * pageArea))
    ELSE Zero

\* this.totalCoveragePercent = totalArea > 0 ? (totalArea / pageArea * 100) : 0
CoveragePercent(total, pageArea) ==
    IF total > 0 THEN PercentOfPage(total, pageArea) ELSE Zero

\* variant: an intersecting element counted with its full area
VisibleAreaUnclipped(item, w) ==
    LET left   == item.position.x - w.scrollX
        top    == item.position.y - w.scrollY
        right  == item.position.x - w.scrollX + item.position.width
        bottom == item.position.y - w.scrollY + item.position.height
    IN  IF bottom > 0 /\ top < w.innerHeight /\ right > 0 /\ left < w.innerWidth
        THEN item.position.width * item.position.height
        ELSE 0

\* one element's share of visibleTPLArea in calculateViewportCoverage
\* (whole square pixels): the box is rebuilt from the stored position
VisibleArea(item, w) ==
    LET left   == item.position.x - w.scrollX
        top    == item.position.y - w.scrollY
        right  == item.position.x - w.scrollX + item.position.width
        bottom == item.position.y - w.scrollY + item.position.height
    IN  IF bottom > 0 /\ top < w.innerHeight /\ right > 0 /\ left < w.innerWidth
        THEN LET visibleWidth  == Min(right, w.innerWidth) - Max(left, 0)
                 visibleHeight == Min(bottom, w.innerHeight) - Max(top, 0)
             IN  IF visibleWidth > 0 /\ visibleHeight > 0
                 THEN visibleWidth * visibleHeight
                 ELSE 0
        ELSE 0

\* this.elements.forEach(...) of calculateViewportCoverage
RECURSIVE SumVisible(_, _)
SumVisible(elems, w) ==
    IF elems = <<>> THEN 0
    ELSE VisibleArea(Head(elems), w) + SumVisible(Tail(elems), w)

\* variant: the division without the guard
ViewportPercentUnguarded(visible, w) ==
    JSDiv(visible * 100, w.innerWidth * w.innerHeight)

\* return visibleTPLArea > 0 ? (visibleTPLArea / viewportArea * 100) : 0
ViewportPercent(visible, w) ==
    IF visible > 0 THEN JSDiv(visible * 100, w.innerWidth * w.innerHeight) ELSE Zero

\* componentCounts / componentAreas after element.classes.forEach(...):
\* keys in insertion order, counts and areas by key
RECURSIVE CountClasses(_, _, _)
CountClasses(classes, area, acc) ==
    IF classes = <<>> THEN acc
    ELSE LET c == Head(classes)
             known == \E k \in 1..Len(acc.keys) : acc.keys[k] = c
             keys1 == IF known THEN acc.keys ELSE Append(acc.keys, c)
             count0 == IF known THEN acc.counts[c] ELSE 0
             area0 == IF known THEN acc.areas[c] ELSE 0
             dom1 == {keys1[k] : k \in 1..Len(keys1)}
         IN  CountClasses(Tail(classes), area,
                 [ keys   |-> keys1,
                   counts |-> [t \in dom1 |-> IF t = c THEN count0 + 1 ELSE acc.counts[t]],
                   areas  |-> [t \in dom1 |-> IF t = c THEN area0 + area ELSE acc.areas[t]] ])

\* this.elements.forEach(...) of getComponentSummary
RECURSIVE CountElements(_, _)
CountElements(elems, acc) ==
    IF elems = <<>> THEN acc
    ELSE CountElements(Tail(elems), CountClasses(Head(elems).classes, Head(elems).area, acc))

EmptyCounts == [keys |-> <<>>, counts |-> <<>>, areas |-> <<>>]

\* Object.keys(componentCounts).map(...)
ComponentOf(className, acc, pageArea) ==
    [ selector        |-> "." \o className,
      count           |-> acc.counts[className],
      totalArea       |-> acc.areas[className],
      averageArea     |-> RoundDiv(acc.areas[className], acc.counts[className]),
      coveragePercent |-> JSDiv(acc.areas[className] * 100, pageArea) ]

\* variant: an unstable sort, c goes ahead of the entries of equal totalArea
InsertByAreaUnstable(sorted, c) ==
    LET before == {k \in 1..Len(sorted) : sorted[k].totalArea > c.totalArea}
        n == IF before = {} THEN 0 ELSE CHOOSE k \in before : \A j \in before : j <= k
    IN  SubSeq(sorted, 1, n) \o <<c>> \o SubSeq(sorted, n + 1, Len(sorted))

\* components.sort((a, b) => b.totalArea - a.totalArea): a stable sort;
\* c goes after every entry whose totalArea is not smaller
InsertByArea(sorted, c) ==
    LET before == {k \in 1..Len(sorted) : sorted[k].totalArea >= c.totalArea}
        n == IF before = {} THEN 0 ELSE CHOOSE k \in before : \A j \in before : j <= k
    IN  SubSeq(sorted, 1, n) \o <<c>> \o SubSeq(sorted, n + 1, Len(sorted))

RECURSIVE SortByArea(_, _)
SortByArea(comps, sorted) ==
    IF comps = <<>> THEN sorted
    ELSE SortByArea(Tail(comps), InsertByArea(sorted, Head(comps)))

ComponentSummary(elems, pageArea) ==
    LET acc == CountElements(elems, EmptyCounts)
        comps == [k \in 1..Len(acc.keys) |-> ComponentOf(acc.keys[k], acc, pageArea)]
    IN  SortByArea(comps, <<>>)

\* components.slice(0, 3).map(comp => comp.selector.replace('.', ''))
TopComponents(comps) ==
    [k \in 1..Min(TopN, Len(comps)) |-> ReplaceFirst(comps[k].selector, ".")]

-----------------------------------------------------------------------------
(* scripts/collect-coverage.js: the stand-alone coverage collector *)

\* page.setViewport({ width: 1920, height: 1080 }), in the scale of
\* Environments
CoverageViewport == [width |-> 12, height |-> 8]

CoverageExcluded == {"tpl-h", "tpl-bottombar", "tpl-coverage", "tpl-btn", "tpl-close"}

\* variant: the excluded strings tested as prefixes
CoverageTokenQualifiesPrefix(c) ==
    /\ IndexOf(c, "tpl") > -1
    /\ \A e \in CoverageExcluded : ~StartsWith(c, e)

\* the test of className.split(' ').filter(...) in detectTPLElements
CoverageTokenQualifies(c) ==
    /\ IndexOf(c, "tpl") > -1
    /\ \A e \in CoverageExcluded : ~Includes(c, e)

CoverageClasses(el) == SelectSeq(Split(el.className), CoverageTokenQualifies)

\* allElements.forEach(...) of detectTPLElements; areas stay raw
\* (quarter square pixels)
RECURSIVE CoverageScan(_, _, _, _)
CoverageScan(d, i, elems, total) ==
    IF i > Len(d) THEN [elements |-> elems, totalArea |-> total]
    ELSE LET el == d[i]
             classes == CoverageClasses(el)
         IN  IF el.classIsString /\ IndexOf(el.className, "tpl") > -1 /\ Len(classes) > 0
             THEN CoverageScan(d, i + 1,
                      Append(elems, [ tagName |-> el.tagName,
                                      classes |-> classes,
                                      area    |-> el.rect.width * el.rect.height,
                                      rect    |-> [width |-> el.rect.width,
                                                   height |-> el.rect.height,
                                                   x |-> el.rect.left,
                                                   y |-> el.rect.top] ]),
                      total + el.rect.width * el.rect.height)
             ELSE CoverageScan(d, i + 1, elems, total)

\* the filter of the viewport pass: only two of the excluded strings
ViewportPassClasses(el) ==
    SelectSeq(Split(el.className),
              LAMBDA c : /\ IndexOf(c, "tpl") > -1
                         /\ ~Includes(c, "tpl-h")
                         /\ ~Includes(c, "tpl-bottombar"))

\* one element's share of visibleTPLArea in the viewport pass (quarter
\* square pixels), clipped from the live bounding rectangle
CoverageVisibleArea(el, w) ==
    IF /\ el.classIsString
       /\ IndexOf(el.className, "tpl") > -1
       /\ Len(ViewportPassClasses(el)) > 0
       /\ Bottom(el.rect) > 0 /\ el.rect.top < 2 * w.innerHeight
       /\ Right(el.rect) > 0 /\ el.rect.left < 2 * w.innerWidth
    THEN LET visibleWidth  == Min(Right(el.rect), 2 * w.innerWidth) - Max(el.rect.left, 0)
             visibleHeight == Min(Bottom(el.rect), 2 * w.innerHeight) - Max(el.rect.top, 0)
         IN  IF visibleWidth > 0 /\ visibleHeight > 0
             THEN visibleWidth * visibleHeight
             ELSE 0
    ELSE 0

RECURSIVE CoverageSumVisible(_, _)
CoverageSumVisible(d, w) ==
    IF d = <<>> THEN 0
    ELSE CoverageVisibleArea(Head(d), w) + CoverageSumVisible(Tail(d), w)

\* parseFloat((visibleTPLArea / viewportArea * 100).toFixed(2))
CoverageViewportPercent(d, w) ==
    ToFixed2(JSDiv(CoverageSumVisible(d, w) * 100, 4 * w.innerWidth * w.innerHeight))

-----------------------------------------------------------------------------
(* tpl-analyzer.js: analyzePage as one call, and the two formatters *)

\* what page.evaluate returns for the scan d in window w of document dc
AnalyzePage(d, w, dc) ==
    LET r == DetectScan(d, w, 1, <<>>, 0)
        comps == ComponentSummary(r.elements, PageArea(dc))
    IN  [ kind                    |-> "analysis",
          elementCount            |-> Len(r.elements),
          totalCoveragePercent    |-> RoundTenths(CoveragePercent(r.totalArea, PageArea(dc))),
          viewportCoveragePercent |-> RoundTenths(ViewportPercent(SumVisible(r.elements, w), w)),
          topComponents           |-> TopComponents(comps),
          components              |-> comps,
          elements                |-> r.elements ]

\* new TPLAnalyzer(): this.elements = []; this.totalCoveragePercent = 0
NewTPLAnalyzer == [elements |-> <<>>, totalCoveragePercent |-> Zero]

\* variant: detect() works on the fields of the TPLAnalyzer instance, pushing
\* onto the elements an earlier call left there
AnalyzePageCallOnInstance(inst, d, w, dc) ==
    LET r == DetectScan(d, w, 1, inst.elements, 0)
        comps == ComponentSummary(r.elements, PageArea(dc))
        percent == CoveragePercent(r.totalArea, PageArea(dc))
    IN  [ analysis |->
              [ kind                    |-> "analysis",
                elementCount            |-> Len(r.elements),
                totalCoveragePercent    |-> RoundTenths(percent),
                viewportCoveragePercent |->
                    RoundTenths(ViewportPercent(SumVisible(r.elements, w), w)),
                topComponents           |-> TopComponents(comps),
                components              |-> comps,
                elements                |-> r.elements ],
          instance |-> [elements |-> r.elements, totalCoveragePercent |-> percent] ]

\* analyzePage(page) called on the TPLAnalyzer instance inst: the value
\* returned and the instance after the call.  The analyzer object that scans
\* the page is an object literal created inside page.evaluate; no field of
\* the instance is read or assigned
AnalyzePageCall(inst, d, w, dc) ==
    [analysis |-> AnalyzePage(d, w, dc), instance |-> inst]

\* formatPageSummary(url, pageConfig, analysisResults)
FormatPageSummary(url, pageConfig, analysisResults) ==
    [ url           |-> url,
      pageType      |-> pageConfig.type,
      section       |-> pageConfig.section,
      tplCoverage   |-> analysisResults.totalCoveragePercent,
      elementCount  |-> analysisResults.elementCount,
      topComponents |-> analysisResults.topComponents ]

\* variant: the headline figure taken from the viewport percentage
FormatDetailedResultsViewport(url, pageConfig, analysisResults) ==
    [ url           |-> url,
      pageType      |-> pageConfig.type,
      section       |-> pageConfig.section,
      tplCoverage   |-> analysisResults.viewportCoveragePercent,
      elementCount  |-> analysisResults.elementCount,
      topComponents |-> analysisResults.topComponents,
      _detailed     |-> [ elementCount            |-> analysisResults.elementCount,
                          totalCoveragePercent    |-> analysisResults.totalCoveragePercent,
                          viewportCoveragePercent |-> analysisResults.viewportCoveragePercent,
                          topComponents           |-> analysisResults.topComponents,
                          components              |-> analysisResults.components,
                          elements                |-> analysisResults.elements ] ]

\* formatDetailedResults(url, pageConfig, analysisResults)
FormatDetailedResults(url, pageConfig, analysisResults) ==
    [ url           |-> url,
      pageType      |-> pageConfig.type,
      section       |-> pageConfig.section,
      tplCoverage   |-> analysisResults.totalCoveragePercent,
      elementCount  |-> analysisResults.elementCount,
      topComponents |-> analysisResults.topComponents,
      _detailed     |-> [ elementCount            |-> analysisResults.elementCount,
                          totalCoveragePercent    |-> analysisResults.totalCoveragePercent,
                          viewportCoveragePercent |-> analysisResults.viewportCoveragePercent,
                          topComponents           |-> analysisResults.topComponents,
                          components              |-> analysisResults.components,
                          elements                |-> analysisResults.elements ] ]

-----------------------------------------------------------------------------
(* collect-data-multiview.js: the cross-viewport analysis.  A JavaScript     *)
(* object used as a map is the sequence of its entries in insertion order;  *)
(* viewportResults is the sequence of [name, viewport, analysis] entries.   *)

Null == [kind |-> "null"]

\* the members of an array
Members(array) == {array[i] : i \in 1..Len(array)}

\* Object.entries(viewportResults).filter(([_, result]) => result.analysis !== null)
SuccessfulResults(vpResults) ==
    SelectSeq(vpResults, LAMBDA r : r.analysis # Null)

\* variant: the failure object also when a single viewport succeeded
NoSuccessfulAnalysesBelowTwo(successfulResults) == Len(successfulResults) < 2

\* successfulResults.length === 0
NoSuccessfulAnalyses(successfulResults) == Len(successfulResults) = 0

\* variant: a failed viewport counted with coverage 0
CoveragesFailedAsZero(vpResults) ==
    [i \in 1..Len(vpResults) |->
        IF vpResults[i].analysis # Null
        THEN vpResults[i].analysis.totalCoveragePercent ELSE Zero]

\* successfulResults.map(r => r.analysis.totalCoveragePercent)
Coverages(vpResults) ==
    LET successfulResults == SuccessfulResults(vpResults)
    IN  [i \in 1..Len(successfulResults) |-> successfulResults[i].analysis.totalCoveragePercent]

\* successfulResults.map(r => r.analysis.elementCount)
ElementCounts(vpResults) ==
    LET successfulResults == SuccessfulResults(vpResults)
    IN  [i \in 1..Len(successfulResults) |-> Num(successfulResults[i].analysis.elementCount)]

\* { min, max, average, range } of a non-empty array of numbers
VarianceStats(numbers) ==
    [ min     |-> MinOf(numbers),
      max     |-> MaxOf(numbers),
      average |-> JSDivBy(SumOf(numbers), Len(numbers)),
      range   |-> JSSub(MaxOf(numbers), MinOf(numbers)) ]

\* allComponents.add(comp) for each comp of the array comps
RECURSIVE AddEach(_, _)
AddEach(allComponents, comps) ==
    IF comps = <<>> THEN allComponents
    ELSE AddEach(IF Head(comps) \in Members(allComponents) THEN allComponents
                 ELSE Append(allComponents, Head(comps)),
                 Tail(comps))

\* the Set allComponents after successfulResults.forEach(...)
RECURSIVE AllComponents(_)
AllComponents(successfulResults) ==
    IF successfulResults = <<>> THEN <<>>
    ELSE AddEach(AllComponents(SubSeq(successfulResults, 1, Len(successfulResults) - 1)),
                 successfulResults[Len(successfulResults)].analysis.topComponents)

\* componentsByViewport[result.name] = result.analysis.topComponents || []
ComponentsByViewport(successfulResults) ==
    [i \in 1..Len(successfulResults) |->
        [key |-> successfulResults[i].name,
         value |-> successfulResults[i].analysis.topComponents]]

\* Object.values(componentsByViewport).filter(c => c.includes(component)).length
ViewportCount(componentsByViewport, component) ==
    Cardinality({i \in 1..Len(componentsByViewport) :
                    component \in Members(componentsByViewport[i].value)})

\* variant: the share taken of all configured viewports
ComponentConsistencyOfAll(vpResults) ==
    LET successfulResults == SuccessfulResults(vpResults)
        all == AllComponents(successfulResults)
        byViewport == ComponentsByViewport(successfulResults)
    IN  [k \in 1..Len(all) |->
            [key |-> all[k],
             value |-> JSDiv(ViewportCount(byViewport, all[k]), Len(vpResults))]]

\* componentConsistency[component] = viewportCount / successfulResults.length
ComponentConsistency(vpResults) ==
    LET successfulResults == SuccessfulResults(vpResults)
        all == AllComponents(successfulResults)
        byViewport == ComponentsByViewport(successfulResults)
    IN  [k \in 1..Len(all) |->
            [key |-> all[k],
             value |-> JSDiv(ViewportCount(byViewport, all[k]), Len(successfulResults))]]

\* variant: a component is kept when some other viewport lacks it
FindViewportSpecificComponentsLax(componentsByViewport) ==
    LET unique(i) ==
            SelectSeq(componentsByViewport[i].value,
                      LAMBDA comp :
                          \E j \in 1..Len(componentsByViewport) :
                              /\ componentsByViewport[j].key # componentsByViewport[i].key
                              /\ comp \notin Members(componentsByViewport[j].value))
    IN  SelectSeq([i \in 1..Len(componentsByViewport) |->
                      [key |-> componentsByViewport[i].key, value |-> unique(i)]],
                  LAMBDA e : Len(e.value) > 0)

\* findViewportSpecificComponents(componentsByViewport)
FindViewportSpecificComponents(componentsByViewport) ==
    LET unique(i) ==
            SelectSeq(componentsByViewport[i].value,
                      LAMBDA comp :
                          ~ \E j \in 1..Len(componentsByViewport) :
                              /\ componentsByViewport[j].key # componentsByViewport[i].key
                              /\ comp \in Members(componentsByViewport[j].value))
    IN  SelectSeq([i \in 1..Len(componentsByViewport) |->
                      [key |-> componentsByViewport[i].key, value |-> unique(i)]],
                  LAMBDA e : Len(e.value) > 0)

\* variant: the sample variance
CalculateVarianceSample(numbers) ==
    LET mean == JSDivBy(SumOf(numbers), Len(numbers))
        squaredDiffs == [i \in 1..Len(numbers) |-> JSSquare(JSSub(numbers[i], mean))]
    IN  JSDivBy(SumOf(squaredDiffs), Len(numbers) - 1)

\* calculateVariance(numbers)
CalculateVariance(numbers) ==
    LET mean == JSDivBy(SumOf(numbers), Len(numbers))
        squaredDiffs == [i \in 1..Len(numbers) |-> JSSquare(JSSub(numbers[i], mean))]
    IN  JSDivBy(SumOf(squaredDiffs), Len(numbers))

\* calculateResponsiveScore(viewportResults)
CalculateResponsiveScore(vpResults) ==
    IF Len(SuccessfulResults(vpResults)) < 2 THEN Zero
    ELSE JSMax(Zero, JSSub(Num(1), JSDivBy(CalculateVariance(Coverages(vpResults)), 100)))

\* generateCrossViewportAnalysis(viewportResults)
GenerateCrossViewportAnalysis(vpResults) ==
    LET successfulResults == SuccessfulResults(vpResults)
    IN  IF NoSuccessfulAnalyses(successfulResults)
        THEN [error |-> "No successful viewport analyses"]
        ELSE [ coverageVariance           |-> VarianceStats(Coverages(vpResults)),
               elementCountVariance       |-> VarianceStats(ElementCounts(vpResults)),
               componentConsistency       |-> ComponentConsistency(vpResults),
               viewportSpecificComponents |->
                   FindViewportSpecificComponents(ComponentsByViewport(successfulResults)),
               responsiveAdoptionScore    |-> CalculateResponsiveScore(vpResults) ]

-----------------------------------------------------------------------------
(* collect-data-multiview.js: the daily multi-viewport summary *)

\* viewportResults[viewportName], Null when there is no such key
ViewportResultOf(vpResults, viewportName) ==
    IF \E i \in 1..Len(vpResults) : vpResults[i].name = viewportName
    THEN vpResults[CHOOSE i \in 1..Len(vpResults) : vpResults[i].name = viewportName]
    ELSE Null

\* results.filter(r => r.crossViewportAnalysis && !r.crossViewportAnalysis.error)
SummarizedResults(allResults) ==
    SelectSeq(allResults, LAMBDA r : "error" \notin DOMAIN r.crossViewportAnalysis)

\* the entry of one page in a viewport summary
ViewportPage(r, viewportName) ==
    LET viewportResult == ViewportResultOf(r.viewportResults, viewportName)
    IN  [ url           |-> r.pageConfig.url,
          pageType      |-> r.pageConfig.type,
          section       |-> r.pageConfig.section,
          viewport      |-> viewportName,
          viewportSize  |-> ToString(viewportResult.viewport.width) \o "x"
                                \o ToString(viewportResult.viewport.height),
          deviceType    |-> viewportResult.viewport.deviceType,
          tplCoverage   |-> viewportResult.analysis.totalCoveragePercent,
          elementCount  |-> viewportResult.analysis.elementCount,
          topComponents |-> viewportResult.analysis.topComponents ]

\* variant: a failed viewport kept as a page of coverage 0
ViewportPagesFailedAsZero(successfulResults, viewportName) ==
    [i \in 1..Len(successfulResults) |->
        LET viewportResult == ViewportResultOf(successfulResults[i].viewportResults, viewportName)
        IN  IF viewportResult = Null \/ viewportResult.analysis = Null
            THEN [ url           |-> successfulResults[i].pageConfig.url,
                   pageType      |-> successfulResults[i].pageConfig.type,
                   section       |-> successfulResults[i].pageConfig.section,
                   viewport      |-> viewportName,
                   viewportSize  |-> "",
                   deviceType    |-> "",
                   tplCoverage   |-> Zero,
                   elementCount  |-> 0,
                   topComponents |-> <<>> ]
            ELSE ViewportPage(successfulResults[i], viewportName)]

\* successfulResults.map(...).filter(page => page !== null)
ViewportPages(successfulResults, viewportName) ==
    LET kept == SelectSeq(successfulResults,
                          LAMBDA r :
                              LET viewportResult == ViewportResultOf(r.viewportResults, viewportName)
                              IN  viewportResult # Null /\ viewportResult.analysis # Null)
    IN  [i \in 1..Len(kept) |-> ViewportPage(kept[i], viewportName)]

\* viewportSummaries after viewportNames.forEach(...)
ViewportSummaries(successfulResults, viewports) ==
    LET summaryOf(k) ==
            LET viewportPages == ViewportPages(successfulResults, viewports[k].key)
                totalCoverage ==
                    SumOf([i \in 1..Len(viewportPages) |-> viewportPages[i].tplCoverage])
            IN  [ key   |-> viewports[k].key,
                  value |-> [ pages              |-> viewportPages,
                              averageCoverage    |->
                                  IF Len(viewportPages) > 0
                                  THEN RoundTenths(JSDivBy(totalCoverage, Len(viewportPages)))
                                  ELSE Zero,
                              totalPagesAnalyzed |-> Len(viewportPages) ] ]
    IN  SelectSeq([k \in 1..Len(viewports) |-> summaryOf(k)],
                  LAMBDA e : e.value.totalPagesAnalyzed > 0)

\* globalComponentConsistency[component].push(score) for one entry
PushScore(global, entry) ==
    IF \E k \in 1..Len(global) : global[k].key = entry.key
    THEN [k \in 1..Len(global) |->
             IF global[k].key = entry.key
             THEN [global[k] EXCEPT !.value = Append(@, entry.value)]
             ELSE global[k]]
    ELSE Append(global, [key |-> entry.key, value |-> <<entry.value>>])

\* Object.entries(analysis.componentConsistency || {}).forEach(...)
RECURSIVE PushScores(_, _)
PushScores(global, entries) ==
    IF entries = <<>> THEN global
    ELSE PushScores(PushScore(global, Head(entries)), Tail(entries))

\* globalComponentConsistency after allCrossAnalyses.forEach(...)
RECURSIVE GlobalComponentConsistency(_)
GlobalComponentConsistency(allCrossAnalyses) ==
    IF allCrossAnalyses = <<>> THEN <<>>
    ELSE PushScores(GlobalComponentConsistency(
                        SubSeq(allCrossAnalyses, 1, Len(allCrossAnalyses) - 1)),
                    allCrossAnalyses[Len(allCrossAnalyses)].componentConsistency)

\* sort((a, b) => b.averageConsistency - a.averageConsistency): a stable sort
InsertByConsistency(sorted, c) ==
    LET before == {k \in 1..Len(sorted) :
                      ~JSLess(sorted[k].averageConsistency, c.averageConsistency)}
        n == IF before = {} THEN 0 ELSE CHOOSE k \in before : \A j \in before : j <= k
    IN  SubSeq(sorted, 1, n) \o <<c>> \o SubSeq(sorted, n + 1, Len(sorted))

RECURSIVE SortByConsistency(_, _)
SortByConsistency(list, sorted) ==
    IF list = <<>> THEN sorted
    ELSE SortByConsistency(Tail(list), InsertByConsistency(sorted, Head(list)))

MostConsistentN == 5

\* mostConsistentComponents
MostConsistentComponents(allCrossAnalyses) ==
    LET global == GlobalComponentConsistency(allCrossAnalyses)
        averaged == [k \in 1..Len(global) |->
                        [ component          |-> global[k].key,
                          averageConsistency |->
                              JSDivBy(SumOf(global[k].value), Len(global[k].value)) ]]
        sorted == SortByConsistency(averaged, <<>>)
    IN  SubSeq(sorted, 1, Min(MostConsistentN, Len(sorted)))

CoverageMargin == 5

\* analyzeCoveragePatterns(results)
AnalyzeCoveragePatterns(successfulResults) ==
    LET both == {i \in 1..Len(successfulResults) :
                    LET m == ViewportResultOf(successfulResults[i].viewportResults, "mobile")
                        d == ViewportResultOf(successfulResults[i].viewportResults, "desktop")
                    IN  m # Null /\ d # Null /\ m.analysis # Null /\ d.analysis # Null}
        mobileOf(i) ==
            ViewportResultOf(successfulResults[i].viewportResults, "mobile")
                .analysis.totalCoveragePercent
        desktopOf(i) ==
            ViewportResultOf(successfulResults[i].viewportResults, "desktop")
                .analysis.totalCoveragePercent
        mobileFirst == {i \in both :
                           JSLess(JSAdd(desktopOf(i), Num(CoverageMargin)), mobileOf(i))}
        desktopFirst == {i \in both \ mobileFirst :
                            JSLess(JSAdd(mobileOf(i), Num(CoverageMargin)), desktopOf(i))}
    IN  [ mobileFirst  |-> Cardinality(mobileFirst),
          desktopFirst |-> Cardinality(desktopFirst),
          consistent   |-> Cardinality(both \ (mobileFirst \cup desktopFirst)) ]

\* devicePatterns[viewport].add(comp) for the components of one entry
AddPattern(patterns, entry) ==
    IF \E k \in 1..Len(patterns) : patterns[k].key = entry.key
    THEN [k \in 1..Len(patterns) |->
             IF patterns[k].key = entry.key
             THEN [patterns[k] EXCEPT !.value = AddEach(@, entry.value)]
             ELSE patterns[k]]
    ELSE Append(patterns, [key |-> entry.key, value |-> AddEach(<<>>, entry.value)])

RECURSIVE AddPatterns(_, _)
AddPatterns(patterns, entries) ==
    IF entries = <<>> THEN patterns
    ELSE AddPatterns(AddPattern(patterns, Head(entries)), Tail(entries))

\* analyzeDeviceSpecificPatterns(results)
RECURSIVE AnalyzeDeviceSpecificPatterns(_)
AnalyzeDeviceSpecificPatterns(successfulResults) ==
    IF successfulResults = <<>> THEN <<>>
    ELSE AddPatterns(AnalyzeDeviceSpecificPatterns(
                         SubSeq(successfulResults, 1, Len(successfulResults) - 1)),
                     successfulResults[Len(successfulResults)]
                         .crossViewportAnalysis.viewportSpecificComponents)

\* generateCrossViewportInsights(results)
GenerateCrossViewportInsights(successfulResults) ==
    LET allCrossAnalyses ==
            [i \in 1..Len(successfulResults) |-> successfulResults[i].crossViewportAnalysis]
        responsiveScores ==
            [i \in 1..Len(allCrossAnalyses) |-> allCrossAnalyses[i].responsiveAdoptionScore]
        avgResponsiveScore == JSDivBy(SumOf(responsiveScores), Len(responsiveScores))
    IN  [ overallResponsiveScore   |-> RoundHundredths(avgResponsiveScore),
          mostConsistentComponents |-> MostConsistentComponents(allCrossAnalyses),
          coveragePatterns         |-> AnalyzeCoveragePatterns(successfulResults),
          deviceSpecificInsights   |-> AnalyzeDeviceSpecificPatterns(successfulResults) ]

\* generateDailySummary(results, config): the summary written, Null when no
\* page has a cross-viewport analysis
DailySummary(allResults, viewports) ==
    LET successfulResults == SummarizedResults(allResults)
    IN  IF Len(successfulResults) = 0 THEN Null
        ELSE [ type                  |-> "multi-viewport-analysis",
               viewportSummaries     |-> ViewportSummaries(successfulResults, viewports),
               crossViewportInsights |-> GenerateCrossViewportInsights(successfulResults),
               totalPagesAnalyzed    |-> Len(successfulResults),
               viewportsTested       |-> [k \in 1..Len(viewports) |-> viewports[k].key] ]

-----------------------------------------------------------------------------
(* State machine *)

NoResult == [kind |-> "none"]

\* no page is open: nothing of an earlier page or analyzer object is left
Idle ==
    /\ pc = "idle"
    /\ dom = <<>>
    /\ win = [innerWidth |-> 0, innerHeight |-> 0, scrollX |-> 0, scrollY |-> 0]
    /\ doc = [bodyScrollHeight |-> 0, docScrollHeight |-> 0,
              bodyScrollWidth |-> 0, docScrollWidth |-> 0]
    /\ elements = <<>>
    /\ totalArea = 0
    /\ totalCoveragePercent = Zero
    /\ elementCount = 0
    /\ visibleTPLArea = 0
    /\ viewportCoverage = Zero
    /\ components = <<>>
    /\ result = NoResult
    /\ coverageData = NoResult

\* new MultiViewportDataCollector(): a new analyzer, no browser, no results
Constructed ==
    /\ browser = "null"
    /\ analyzer = NewTPLAnalyzer
    /\ config = Null
    /\ step = "constructed"
    /\ pageIndex = 0
    /\ viewportIndex = 0
    /\ page = Null
    /\ openPages = 0
    /\ viewportResults = <<>>
    /\ results = <<>>
    /\ savedFiles = <<>>
    /\ summary = Null

\* no formatter has been called
Unformatted ==
    /\ formatInput = Null
    /\ pageSummary = Null
    /\ detailedData = Null

\* new DataCollector(): nothing collected, nothing summarized
NothingCollected ==
    /\ dataStep = "constructed"
    /\ dataConfig = Null
    /\ dataResults = <<>>
    /\ dailySummary = Null

\* main() of collect-coverage.js has not started: nothing sent, nothing written
NotStarted ==
    /\ mainStep = "start"
    /\ targetUrl = ""
    /\ apiEndpoint = ""
    /\ openedPage = Null
    /\ returned = Null
    /\ apiPosts = <<>>
    /\ localFiles = <<>>

\* the API module is not loaded yet; let coverageDataStore = []
Cold ==
    /\ databaseUrl = "unloaded"
    /\ coverageDataStore = <<>>
    /\ database = <<>>
    /\ generated = 0
    /\ handled = 0
    /\ exchange = Null

\* new LocalTesting(): isRunning = false, runCount = 0; no child, no timer
LoopConstructed ==
    /\ loopStep = "constructed"
    /\ isRunning = FALSE
    /\ runCount = 0
    /\ spawnCalls = 0
    /\ children = 0
    /\ ticks = 0
    /\ lastTick = Null
    /\ lastCode = Null

Init ==
    Idle /\ Constructed /\ Unformatted /\ NothingCollected /\ NotStarted /\ Cold
         /\ LoopConstructed

\* collect-data.js / collect-data-multiview.js: page.setViewport(...) and
\* page.goto(url); the viewport comes from the configuration
Navigate ==
    /\ pc = "idle"
    /\ \E d \in Snapshots, e \in Environments :
          /\ dom' = d
          /\ win' = e.win
          /\ doc' = e.doc
    /\ pc' = "loaded"
    /\ UNCHANGED <<collectorVars, formatterVars, scriptVars>>
    /\ UNCHANGED <<elements, totalArea, totalCoveragePercent, elementCount,
                   visibleTPLArea, viewportCoverage, components, result, coverageData>>

\* collect-coverage.js: page.goto(url) in the page whose viewport initialize()
\* fixed once
CoverageNavigate ==
    /\ pc = "idle"
    /\ \E d \in Snapshots, e \in Environments :
          /\ e.win.innerWidth = CoverageViewport.width
          /\ e.win.innerHeight = CoverageViewport.height
          /\ dom' = d
          /\ win' = e.win
          /\ doc' = e.doc
    /\ pc' = "covLoaded"
    /\ UNCHANGED <<collectorVars, formatterVars, scriptVars>>
    /\ UNCHANGED <<elements, totalArea, totalCoveragePercent, elementCount,
                   visibleTPLArea, viewportCoverage, components, result, coverageData>>

\* analyzer.detect()
Detect ==
    /\ pc = "loaded"
    /\ LET r == DetectScan(dom, win, 1, <<>>, 0)
       IN  /\ elements' = r.elements
           /\ totalArea' = r.totalArea
           /\ totalCoveragePercent' = CoveragePercent(r.totalArea, PageArea(doc))
           /\ elementCount' = Len(r.elements)
    /\ pc' = "detected"
    /\ UNCHANGED <<collectorVars, formatterVars, scriptVars>>
    /\ UNCHANGED <<dom, win, doc, visibleTPLArea, viewportCoverage, components,
                   result, coverageData>>

\* analyzer.calculateViewportCoverage()
CalculateViewportCoverage ==
    /\ pc = "detected"
    /\ LET visible == SumVisible(elements, win)
       IN  /\ visibleTPLArea' = visible
           /\ viewportCoverage' = ViewportPercent(visible, win)
    /\ pc' = "measured"
    /\ UNCHANGED <<collectorVars, formatterVars, scriptVars>>
    /\ UNCHANGED <<dom, win, doc, elements, totalArea, totalCoveragePercent,
                   elementCount, components, result, coverageData>>

\* analyzer.getComponentSummary()
GetComponentSummary ==
    /\ pc = "measured"
    /\ components' = ComponentSummary(elements, PageArea(doc))
    /\ pc' = "summarized"
    /\ UNCHANGED <<collectorVars, formatterVars, scriptVars>>
    /\ UNCHANGED <<dom, win, doc, elements, totalArea, totalCoveragePercent,
                   elementCount, visibleTPLArea, viewportCoverage, result, coverageData>>

\* the object returned from page.evaluate
Return ==
    /\ pc = "summarized"
    /\ result' = [ kind                    |-> "analysis",
                   elementCount            |-> elementCount,
                   totalCoveragePercent    |-> RoundTenths(totalCoveragePercent),
                   viewportCoveragePercent |-> RoundTenths(viewportCoverage),
                   topComponents           |-> TopComponents(components),
                   components              |-> components,
                   elements                |-> elements ]
    /\ pc' = "done"
    /\ UNCHANGED <<collectorVars, formatterVars, scriptVars>>
    /\ UNCHANGED <<dom, win, doc, elements, totalArea, totalCoveragePercent,
                   elementCount, visibleTPLArea, viewportCoverage, components,
                   coverageData>>

\* collect-coverage.js: page.evaluate(detectTPLElements)
DetectTPLElements ==
    /\ pc = "covLoaded"
    /\ LET r == CoverageScan(dom, 1, <<>>, 0)
       IN  coverageData' =
             [ kind                    |-> "coverage",
               totalElements           |-> Len(r.elements),
               totalCoveragePercent    |-> ToFixed2(JSDiv(r.totalArea * 100, 4 * PageArea(doc))),
               pageArea                |-> PageArea(doc),
               totalTPLArea            |-> r.totalArea,
               elements                |-> r.elements,
               viewport                |-> [width |-> win.innerWidth, height |-> win.innerHeight],
               viewportCoveragePercent |-> NoResult ]
    /\ pc' = "covDetected"
    /\ UNCHANGED <<collectorVars, formatterVars, scriptVars>>
    /\ UNCHANGED <<dom, win, doc, elements, totalArea, totalCoveragePercent,
                   elementCount, visibleTPLArea, viewportCoverage, components, result>>

\* collect-coverage.js: the second page.evaluate and
\* coverageData.viewportCoveragePercent = viewportCoverage
CoverageViewportPass ==
    /\ pc = "covDetected"
    /\ coverageData' = [coverageData EXCEPT
                          !.viewportCoveragePercent = CoverageViewportPercent(dom, win)]
    /\ pc' = "covDone"
    /\ UNCHANGED <<collectorVars, formatterVars, scriptVars>>
    /\ UNCHANGED <<dom, win, doc, elements, totalArea, totalCoveragePercent,
                   elementCount, visibleTPLArea, viewportCoverage, components, result>>

\* the page, its window and the object injected into it are discarded
PageGone ==
    /\ pc' = "idle"
    /\ dom' = <<>>
    /\ win' = [innerWidth |-> 0, innerHeight |-> 0, scrollX |-> 0, scrollY |-> 0]
    /\ doc' = [bodyScrollHeight |-> 0, docScrollHeight |-> 0,
               bodyScrollWidth |-> 0, docScrollWidth |-> 0]
    /\ elements' = <<>>
    /\ totalArea' = 0
    /\ totalCoveragePercent' = Zero
    /\ elementCount' = 0
    /\ visibleTPLArea' = 0
    /\ viewportCoverage' = Zero
    /\ components' = <<>>
    /\ result' = NoResult
    /\ coverageData' = NoResult
    /\ UNCHANGED <<collectorVars, formatterVars, scriptVars>>

\* collect-data.js: finally { await page.close() }
Close ==
    /\ pc = "done"
    /\ PageGone

\* collect-coverage.js: cleanup() closes the browser
CoverageCleanup ==
    /\ pc = "covDone"
    /\ PageGone

Next ==
    \/ Navigate
    \/ CoverageNavigate
    \/ Detect
    \/ CalculateViewportCoverage
    \/ GetComponentSummary
    \/ Return
    \/ DetectTPLElements
    \/ CoverageViewportPass
    \/ Close
    \/ CoverageCleanup

Spec == Init /\ [][Next]_vars

-----------------------------------------------------------------------------
(* State machine of MultiViewportDataCollector.run *)

PageHome == [url |-> "https://www.nytimes.com/", type |-> "homepage", section |-> "home"]

PageArticle ==
    [url |-> "https://www.nytimes.com/article", type |-> "article", section |-> "news"]

\* entries of config.viewports; deviceType "" stands for an entry without one
ViewportMobile == [key |-> "mobile", name |-> "Mobile", width |-> 6, height |-> 8, deviceType |-> "mobile"]

ViewportTablet == [key |-> "tablet", name |-> "Tablet", width |-> 9, height |-> 8, deviceType |-> "tablet"]

ViewportDesktop == [key |-> "desktop", name |-> "Desktop", width |-> 12, height |-> 8, deviceType |-> ""]

\* the contents of config/pages.yml
Configs ==
    { [pages |-> <<PageHome>>,
       viewports |-> <<ViewportMobile, ViewportTablet, ViewportDesktop>>],
      [pages |-> <<PageHome, PageArticle>>,
       viewports |-> <<ViewportMobile, ViewportDesktop>>] }

Div(className, rect) ==
    [tagName |-> "DIV", id |-> "", classIsString |-> TRUE, className |-> className, rect |-> rect]

\* document scroll sizes: a page of 500 square pixels, one of 150, one of width 0
WideDoc == [bodyScrollHeight |-> 10, docScrollHeight |-> 10,
            bodyScrollWidth |-> 50, docScrollWidth |-> 50]

NarrowDoc == [bodyScrollHeight |-> 15, docScrollHeight |-> 12,
              bodyScrollWidth |-> 8, docScrollWidth |-> 10]

EmptyDoc == [bodyScrollHeight |-> 15, docScrollHeight |-> 12,
             bodyScrollWidth |-> 0, docScrollWidth |-> 0]

\* what a page can look like once page.goto has settled
Renderings ==
    { [dom |-> <<Div("tpl-card foo", RectA)>>, doc |-> WideDoc],
      [dom |-> <<Div("tpl-nav tpl-lbl tpl-card", RectA), Div("tpl-hero", RectC),
                 Div("tpl-hero", RectC)>>, doc |-> WideDoc],
      [dom |-> <<Div("tpl-hero", RectC)>>, doc |-> NarrowDoc],
      [dom |-> <<Div("tpl-hero", RectC)>>, doc |-> EmptyDoc],
      [dom |-> <<Div("foo", RectA)>>, doc |-> WideDoc] }

\* the viewport object stored with a result: deviceType: viewport.deviceType || 'desktop'
ViewportInfo(viewport) ==
    [ name       |-> viewport.name,
      width      |-> viewport.width,
      height     |-> viewport.height,
      deviceType |-> IF viewport.deviceType = "" THEN "desktop" ELSE viewport.deviceType ]

\* viewportResults[viewportName] = { viewport, analysis }
AnalysedEntry(viewport, analysis) ==
    [name |-> viewport.key, viewport |-> ViewportInfo(viewport), analysis |-> analysis]

\* viewportResults[viewportName] = { viewport, error: error.message, analysis: null }
FailedEntry(viewport, message) ==
    [name |-> viewport.key, viewport |-> ViewportInfo(viewport), error |-> message,
     analysis |-> Null]

\* init(): this.browser = await puppeteer.launch(...); a rejected launch
\* leaves this.browser null and is caught by run()
LaunchBrowser ==
    /\ step = "constructed"
    /\ \/ browser' = "open" /\ step' = "launched"
       \/ browser' = browser /\ step' = "failed"
    /\ UNCHANGED <<config, pageIndex, viewportIndex, page, openPages, viewportResults,
                   results, savedFiles, summary>>
    /\ UNCHANGED <<analyzer, analyzerVars, formatterVars, scriptVars>>

\* loadConfig() reads and parses config/pages.yml; an unreadable file is
\* rethrown to run()
LoadConfig ==
    /\ step = "launched"
    /\ \/ /\ \E c \in Configs : config' = c
          /\ pageIndex' = 1
          /\ viewportIndex' = 1
          /\ step' = "newPage"
       \/ /\ step' = "failed"
          /\ UNCHANGED <<config, pageIndex, viewportIndex>>
    /\ UNCHANGED <<browser, page, openPages, viewportResults, results, savedFiles, summary>>
    /\ UNCHANGED <<analyzer, analyzerVars, formatterVars, scriptVars>>

\* the pages open in the browser once page.close() has settled, when one
\* unit of work skips the call
PagesAfterCloseSkipped(open) == open

\* the pages open in the browser once page.close() has settled
PagesAfterClose(open) == open - 1

\* const page = await this.browser.newPage(), ahead of the try block: a
\* rejection leaves analyzePageAllViewports and collectAllData
NewPage ==
    /\ step = "newPage"
    /\ \/ page' = [state |-> "blank"] /\ openPages' = openPages + 1 /\ step' = "try"
       \/ page' = page /\ openPages' = openPages /\ step' = "failed"
    /\ UNCHANGED <<browser, config, pageIndex, viewportIndex, viewportResults, results,
                   savedFiles, summary>>
    /\ UNCHANGED <<analyzer, analyzerVars, formatterVars, scriptVars>>

\* page.setViewport, page.goto and the wait, inside the try block: a
\* rejection is caught and recorded
Goto ==
    /\ step = "try"
    /\ LET viewport == config.viewports[viewportIndex]
       IN  \/ /\ \E r \in Renderings :
                    page' = [ state |-> "loaded",
                              dom   |-> r.dom,
                              doc   |-> r.doc,
                              win   |-> [innerWidth |-> viewport.width,
                                         innerHeight |-> viewport.height,
                                         scrollX |-> 0, scrollY |-> 0] ]
              /\ step' = "analyze"
              /\ UNCHANGED viewportResults
           \/ /\ viewportResults' =
                    Append(viewportResults, FailedEntry(viewport, "Navigation timeout"))
              /\ step' = "finally"
              /\ UNCHANGED page
    /\ UNCHANGED <<browser, config, pageIndex, viewportIndex, openPages, results, savedFiles,
                   summary>>
    /\ UNCHANGED <<analyzer, analyzerVars, formatterVars, scriptVars>>

\* this.analyzer.analyzePage(page), inside the try block
Analyze ==
    /\ step = "analyze"
    /\ LET viewport == config.viewports[viewportIndex]
           call == AnalyzePageCall(analyzer, page.dom, page.win, page.doc)
       IN  \/ /\ viewportResults' =
                    Append(viewportResults, AnalysedEntry(viewport, call.analysis))
              /\ analyzer' = call.instance
           \/ /\ viewportResults' =
                    Append(viewportResults, FailedEntry(viewport, "Evaluation failed"))
              /\ analyzer' = analyzer
    /\ step' = "finally"
    /\ UNCHANGED <<browser, config, pageIndex, viewportIndex, page, openPages, results,
                   savedFiles, summary>>
    /\ UNCHANGED <<analyzerVars, formatterVars, scriptVars>>

\* finally { await page.close() } and the pause before the next viewport: a
\* rejection of close leaves analyzePageAllViewports and collectAllData
ClosePage ==
    /\ step = "finally"
    /\ \/ /\ page' = Null
          /\ openPages' = PagesAfterClose(openPages)
          /\ IF viewportIndex < Len(config.viewports)
             THEN viewportIndex' = viewportIndex + 1 /\ step' = "newPage"
             ELSE viewportIndex' = viewportIndex /\ step' = "return"
       \/ /\ step' = "failed"
          /\ UNCHANGED <<page, openPages, viewportIndex>>
    /\ UNCHANGED <<browser, config, pageIndex, viewportResults, results, savedFiles, summary>>
    /\ UNCHANGED <<analyzer, analyzerVars, formatterVars, scriptVars>>

\* analyzePageAllViewports returns and collectAllData pushes the result
ReturnPageResult ==
    /\ step = "return"
    /\ results' = Append(results,
                         [ pageConfig            |-> config.pages[pageIndex],
                           viewportResults       |-> viewportResults,
                           crossViewportAnalysis |->
                               GenerateCrossViewportAnalysis(viewportResults) ])
    /\ viewportResults' = <<>>
    /\ IF pageIndex < Len(config.pages)
       THEN pageIndex' = pageIndex + 1 /\ viewportIndex' = 1 /\ step' = "newPage"
       ELSE pageIndex' = pageIndex /\ viewportIndex' = viewportIndex /\ step' = "collected"
    /\ UNCHANGED <<browser, config, page, openPages, savedFiles, summary>>
    /\ UNCHANGED <<analyzer, analyzerVars, formatterVars, scriptVars>>

\* saveRawData(results): one file per result; a rejected mkdir or writeFile
\* is thrown to run()
SaveRawData ==
    /\ step = "collected"
    /\ \/ /\ savedFiles' =
                [i \in 1..Len(results) |->
                    [ section               |-> results[i].pageConfig.section,
                      index                 |-> i - 1,
                      url                   |-> results[i].pageConfig.url,
                      pageType              |-> results[i].pageConfig.type,
                      viewportResults       |-> results[i].viewportResults,
                      crossViewportAnalysis |-> results[i].crossViewportAnalysis ]]
          /\ step' = "saved"
       \/ /\ savedFiles' = savedFiles
          /\ step' = "failed"
    /\ UNCHANGED <<browser, config, pageIndex, viewportIndex, page, openPages,
                   viewportResults, results, summary>>
    /\ UNCHANGED <<analyzer, analyzerVars, formatterVars, scriptVars>>

\* generateDailySummary(results, config); a rejected writeFile is thrown to
\* run()
GenerateDailySummary ==
    /\ step = "saved"
    /\ \/ summary' = DailySummary(results, config.viewports) /\ step' = "summarized"
       \/ summary' = summary /\ step' = "failed"
    /\ UNCHANGED <<browser, config, pageIndex, viewportIndex, page, openPages,
                   viewportResults, results, savedFiles>>
    /\ UNCHANGED <<analyzer, analyzerVars, formatterVars, scriptVars>>

\* finally { await this.cleanup() }: if (this.browser) await this.browser.close()
Cleanup ==
    /\ step = "summarized"
    /\ browser' = "closed"
    /\ openPages' = 0
    /\ step' = "finished"
    /\ UNCHANGED <<config, pageIndex, viewportIndex, page, viewportResults, results,
                   savedFiles, summary>>
    /\ UNCHANGED <<analyzer, analyzerVars, formatterVars, scriptVars>>

\* catch (error) { console.error(...); process.exit(1) }: the process ends
\* inside the catch block, ahead of the finally block
ExitOnError ==
    /\ step = "failed"
    /\ step' = "exited"
    /\ UNCHANGED <<browser, config, pageIndex, viewportIndex, page, openPages,
                   viewportResults, results, savedFiles, summary>>
    /\ UNCHANGED <<analyzer, analyzerVars, formatterVars, scriptVars>>

CollectorNext ==
    \/ LaunchBrowser
    \/ LoadConfig
    \/ NewPage
    \/ Goto
    \/ Analyze
    \/ ClosePage
    \/ ReturnPageResult
    \/ SaveRawData
    \/ GenerateDailySummary
    \/ Cleanup
    \/ ExitOnError

CollectorSpec == Init /\ [][CollectorNext]_vars

-----------------------------------------------------------------------------
(* The formatters of tpl-analyzer.js applied to an analysis *)

FormatUrls ==
    {"https://www.nytimes.com/", "https://www.nytimes.com/article",
     "https://www.nytimes.com/?x=1"}

\* the analyses analyzePage can hand to a formatter
Analyses ==
    { AnalyzePage(r.dom,
                  [innerWidth |-> v.width, innerHeight |-> v.height, scrollX |-> 0, scrollY |-> 0],
                  r.doc) :
        r \in Renderings, v \in {ViewportMobile, ViewportTablet, ViewportDesktop} }

\* the collector holds a (url, pageConfig, analysis) triple
TakeResult ==
    /\ formatInput = Null
    /\ \E u \in FormatUrls, pcfg \in {PageHome, PageArticle}, a \in Analyses :
          formatInput' = [url |-> u, pageConfig |-> pcfg, analysis |-> a]
    /\ UNCHANGED <<pageSummary, detailedData>>
    /\ UNCHANGED <<analyzerVars, collectorVars, scriptVars>>

\* collect-data.js generateDailySummary: this.analyzer.formatPageSummary(...)
FormatSummary ==
    /\ formatInput # Null
    /\ pageSummary = Null
    /\ pageSummary' =
          FormatPageSummary(formatInput.url, formatInput.pageConfig, formatInput.analysis)
    /\ UNCHANGED <<formatInput, detailedData>>
    /\ UNCHANGED <<analyzerVars, collectorVars, scriptVars>>

\* collect-data.js saveRawData: this.analyzer.formatDetailedResults(...)
FormatDetailed ==
    /\ formatInput # Null
    /\ detailedData = Null
    /\ detailedData' =
          FormatDetailedResults(formatInput.url, formatInput.pageConfig, formatInput.analysis)
    /\ UNCHANGED <<formatInput, pageSummary>>
    /\ UNCHANGED <<analyzerVars, collectorVars, scriptVars>>

FormatterNext ==
    \/ TakeResult
    \/ FormatSummary
    \/ FormatDetailed

FormatterSpec == Init /\ [][FormatterNext]_vars

-----------------------------------------------------------------------------
(* Properties of the element matcher *)

AnalyzerRan == pc \in {"detected", "measured", "summarized", "done"}

CoverageRan == pc \in {"covDetected", "covDone"}

\* the class tokens of a class attribute (whitespace yields no token)
Tokens(className) == SelectSeq(Split(className), LAMBDA c : c # "")

\* for a scan d and a choice Q(el) of the tokens an element should carry:
\* the token lists of the elements that carry at least one, in scan order
Carried(d, Q(_)) ==
    SelectSeq([i \in 1..Len(d) |-> IF d[i].classIsString THEN Q(d[i]) ELSE <<>>],
              LAMBDA l : l # <<>>)

ClassesOf(elems) == [k \in 1..Len(elems) |-> elems[k].classes]

\* C1: the analyzer drops an element exactly when none of its class tokens
\* qualifies: the emitted elements are, in scan order, the elements with at
\* least one qualifying token, each carrying exactly its qualifying tokens
\* (so class="tpl-card tpl-btn" is emitted with tpl-card).
C1_DropsOnlyUnqualified ==
    AnalyzerRan => ClassesOf(elements) = Carried(dom, MatchedClasses)

\* C2 as originally stated: a token qualifies iff it contains "tpl" and does
\* not START with an excluded string; the collector's emitted elements carry
\* exactly those tokens.
PrefixQualifying(className, excluded) ==
    SelectSeq(Split(className),
              LAMBDA c : Includes(c, "tpl") /\ \A e \in excluded : ~StartsWith(c, e))

C2_PrefixFilter ==
    CoverageRan =>
        ClassesOf(coverageData.elements) =
            Carried(dom, LAMBDA el : PrefixQualifying(el.className,
                {"tpl-h", "tpl-bottombar", "tpl-coverage", "tpl-btn", "tpl-close"}))

\* C2 amended: a token qualifies iff it contains "tpl" and contains none of
\* the excluded strings at any position.  The collector emits exactly the
\* elements with such a token, carrying exactly these tokens; every element
\* the analyzer emits carries exactly these tokens of a scanned element.
SubstringQualifying(className, excluded) ==
    SelectSeq(Split(className),
              LAMBDA c : Includes(c, "tpl") /\ \A e \in excluded : ~Includes(c, e))

C2_SubstringFilter ==
    /\ CoverageRan =>
          ClassesOf(coverageData.elements) =
              Carried(dom, LAMBDA el : SubstringQualifying(el.className,
                  {"tpl-h", "tpl-bottombar", "tpl-coverage", "tpl-btn", "tpl-close"}))
    /\ AnalyzerRan =>
          \A k \in 1..Len(elements) :
              \E i \in 1..Len(dom) :
                  /\ dom[i].classIsString
                  /\ elements[k].classes = SubstringQualifying(dom[i].className,
                        {"tpl-bottombar", "tpl-coverage", "tpl-btn", "tpl-close"})
                  /\ elements[k].classes # <<>>

\* a token holding an excluded string past its first character was scanned,
\* and its element was emitted without it
C2_Witness ==
    /\ pc = "covDone"
    /\ \E i \in 1..Len(dom) :
          /\ \E t \in {Split(dom[i].className)[n] : n \in 1..Len(Split(dom[i].className))} :
                Includes(t, "tpl-btn") /\ ~StartsWith(t, "tpl-btn")
          /\ \E k \in 1..Len(coverageData.elements) :
                coverageData.elements[k].classes = <<"tpl-lb">>

\* C3: when every class token of every element starts with an excluded
\* prefix, the analyzer emits nothing: no elements, elementCount 0, no
\* components, empty topComponents.
OnlyExcludedPrefixes ==
    \A i \in 1..Len(dom) :
        \A n \in 1..Len(Tokens(dom[i].className)) :
            \E e \in {"tpl-bottombar", "tpl-coverage", "tpl-btn", "tpl-close"} :
                StartsWith(Tokens(dom[i].className)[n], e)

C3_OnlyExcludedIsEmpty ==
    OnlyExcludedPrefixes =>
        /\ AnalyzerRan => elements = <<>> /\ elementCount = 0
        /\ pc \in {"summarized", "done"} => components = <<>>
        /\ pc = "done" => /\ result.elementCount = 0
                          /\ result.elements = <<>>
                          /\ result.components = <<>>
                          /\ result.topComponents = <<>>

C3_Witness ==
    /\ pc = "done"
    /\ Len(dom) = MaxElems
    /\ OnlyExcludedPrefixes
    /\ \E i \in 1..Len(dom) : Len(Tokens(dom[i].className)) > 1

-----------------------------------------------------------------------------
(* Properties of the coverage calculation *)

\* the raw bounding-box areas (quarter square pixels) of the scanned
\* elements the analyzer matches, summed
RECURSIVE RawMatchedArea(_)
RawMatchedArea(d) ==
    IF d = <<>> THEN 0
    ELSE (IF ElementGuard(Head(d)) /\ MatchedClasses(Head(d)) # <<>>
          THEN Head(d).rect.width * Head(d).rect.height
          ELSE 0)
         + RawMatchedArea(Tail(d))

\* v is the number n / d
IsFraction(v, n, d) == v.kind = "fin" /\ v.num * d = v.den * n

\* r is n / d rounded to one decimal place
IsRoundedToTenths(r, n, d) ==
    /\ r.kind = "fin"
    /\ (r.num * 10) % r.den = 0
    /\ LET t == (r.num * 10) \div r.den
       IN  (2 * t - 1) * d <= 20 * n /\ 20 * n < (2 * t + 1) * d

\* C4: for a positive page area, totalCoveragePercent is the sum of the raw
\* bounding-box areas of all matched elements divided by pageArea times 100;
\* overlapping elements each count in full, so the value may exceed 100.
\* The reported value is this number rounded to one decimal place.
C4_TotalCoverageIsRawSum ==
    (AnalyzerRan /\ PageArea(doc) > 0) =>
        /\ IsFraction(totalCoveragePercent, 100 * RawMatchedArea(dom), 4 * PageArea(doc))
        /\ pc = "done" =>
              IsRoundedToTenths(result.totalCoveragePercent,
                                100 * RawMatchedArea(dom), 4 * PageArea(doc))

\* two matched elements cover the same region and coverage exceeds 100
C4_Witness ==
    /\ pc = "done"
    /\ PageArea(doc) > 0
    /\ Len(elements) = 2
    /\ elements[1].position = elements[2].position
    /\ elements[1].area > 0
    /\ totalCoveragePercent.num > 100 * totalCoveragePercent.den

\* C5: whenever pageArea <= 0, totalCoveragePercent is 0, whatever was
\* matched.
C5_ZeroPageAreaGivesZero ==
    PageArea(doc) <= 0 =>
        /\ AnalyzerRan => totalCoveragePercent = Zero
        /\ pc = "done" => result.totalCoveragePercent = Zero

\* C6: whenever the viewport area is 0, viewportCoveragePercent is 0: no
\* element contributes a clipped area and the division is not evaluated.
C6_ZeroViewportGivesZero ==
    win.innerWidth * win.innerHeight = 0 =>
        /\ pc \in {"measured", "summarized", "done"} =>
              visibleTPLArea = 0 /\ viewportCoverage = Zero
        /\ pc = "done" => result.viewportCoveragePercent = Zero

\* a matched element of positive area straddles the edge of the empty window
C6_Witness ==
    /\ pc = "done"
    /\ win.innerWidth * win.innerHeight = 0
    /\ \E k \in 1..Len(elements) :
          /\ elements[k].area > 0
          /\ elements[k].position.x - win.scrollX < 0
          /\ elements[k].position.x - win.scrollX + elements[k].position.width > 0
          /\ elements[k].position.y - win.scrollY < 0
          /\ elements[k].position.y - win.scrollY + elements[k].position.height > 0

\* the area of the intersection of an element's viewport-relative box with
\* [0, innerWidth] x [0, innerHeight]; nothing when it has no positive
\* width or height
Intersection(item, w) ==
    LET iw == Min(item.position.x - w.scrollX + item.position.width, w.innerWidth)
                - Max(item.position.x - w.scrollX, 0)
        ih == Min(item.position.y - w.scrollY + item.position.height, w.innerHeight)
                - Max(item.position.y - w.scrollY, 0)
    IN  IF iw <= 0 \/ ih <= 0 THEN 0 ELSE iw * ih

RECURSIVE SumIntersections(_, _)
SumIntersections(elems, w) ==
    IF elems = <<>> THEN 0
    ELSE Intersection(Head(elems), w) + SumIntersections(Tail(elems), w)

\* C7: viewport coverage adds, for each matched element, exactly the area of
\* that intersection; each contribution lies between 0 and the viewport
\* area; the result is the sum over the viewport area times 100, or 0 when
\* nothing is visible.
C7_ViewportAddsClippedArea ==
    pc \in {"measured", "summarized", "done"} =>
        /\ visibleTPLArea = SumIntersections(elements, win)
        /\ \A k \in 1..Len(elements) :
              /\ VisibleArea(elements[k], win) = Intersection(elements[k], win)
              /\ 0 <= VisibleArea(elements[k], win)
              /\ VisibleArea(elements[k], win) <= win.innerWidth * win.innerHeight
        /\ IF visibleTPLArea > 0
           THEN IsFraction(viewportCoverage, 100 * visibleTPLArea,
                           win.innerWidth * win.innerHeight)
           ELSE viewportCoverage = Zero

\* an element was clipped: it counts with less than its own area, and
\* another lies wholly outside the window
C7_Witness ==
    /\ pc = "done"
    /\ Len(elements) = 2
    /\ \E k \in 1..Len(elements) :
          /\ 0 < Intersection(elements[k], win)
          /\ Intersection(elements[k], win)
                < elements[k].position.width * elements[k].position.height
    /\ \E k \in 1..Len(elements) :
          /\ elements[k].area > 0
          /\ Intersection(elements[k], win) = 0
    /\ visibleTPLArea > 0

-----------------------------------------------------------------------------
(* Properties of the component summary *)

Summarized == pc \in {"summarized", "done"}

\* the token a ComponentStat stands for
TokenOf(comp) == SubSeq(comp.selector, 2, Len(comp.selector))

Carries(e, t) == \E n \in 1..Len(e.classes) : e.classes[n] = t

Carriers(elems, t) == {j \in 1..Len(elems) : Carries(elems[j], t)}

RECURSIVE AreaOfCarriers(_, _)
AreaOfCarriers(elems, t) ==
    IF elems = <<>> THEN 0
    ELSE (IF Carries(Head(elems), t) THEN Head(elems).area ELSE 0)
         + AreaOfCarriers(Tail(elems), t)

\* C8: for every token, the ComponentStat totalArea equals exactly the sum
\* of the area field of all matched elements carrying that token.
C8_TotalAreaIsSumOfCarriers ==
    Summarized =>
        \A k \in 1..Len(components) :
            components[k].totalArea = AreaOfCarriers(elements, TokenOf(components[k]))

\* C9: each token has exactly one ComponentStat, and its count is the number
\* of matched elements carrying the token, also when a class attribute
\* repeats the token.
C9_CountIsNumberOfCarriers ==
    Summarized =>
        /\ \A j \in 1..Len(elements) : \A n \in 1..Len(elements[j].classes) :
              Cardinality({k \in 1..Len(components) :
                              TokenOf(components[k]) = elements[j].classes[n]}) = 1
        /\ \A k \in 1..Len(components) :
              components[k].count = Cardinality(Carriers(elements, TokenOf(components[k])))

\* the tokens of the matched elements in the order the scan meets them
RECURSIVE ScanOrder(_)
ScanOrder(elems) ==
    IF elems = <<>> THEN <<>> ELSE Head(elems).classes \o ScanOrder(Tail(elems))

FirstSeen(elems, t) ==
    LET order == ScanOrder(elems)
    IN  CHOOSE n \in 1..Len(order) :
            order[n] = t /\ \A m \in 1..(n - 1) : order[m] # t

\* C10: components is sorted by totalArea in non-increasing order, equal
\* totalArea keeps first-encountered order, and topComponents is the names
\* of the first min(3, number of components) entries.
C10_SortedStableTop3 ==
    /\ Summarized =>
          \A i \in 1..Len(components) : \A j \in 1..Len(components) :
              i < j =>
                  /\ components[i].totalArea >= components[j].totalArea
                  /\ components[i].totalArea = components[j].totalArea =>
                        FirstSeen(elements, TokenOf(components[i]))
                            < FirstSeen(elements, TokenOf(components[j]))
    /\ pc = "done" =>
          /\ Len(result.topComponents) =
                (IF Len(result.components) < 3 THEN Len(result.components) ELSE 3)
          /\ \A k \in 1..Len(result.topComponents) :
                /\ result.topComponents[k] = TokenOf(result.components[k])
                /\ Carriers(result.elements, result.topComponents[k]) # {}

\* more than three components, a tie kept in scan order, and a token met
\* later in the scan ranked ahead of an earlier one
C10_Witness ==
    /\ pc = "done"
    /\ Len(components) > 3
    /\ \E i \in 1..Len(components) : \E j \in 1..Len(components) :
          i < j /\ components[i].totalArea = components[j].totalArea
    /\ \E i \in 1..Len(components) : \E j \in 1..Len(components) :
          /\ i < j
          /\ FirstSeen(elements, TokenOf(components[i]))
                > FirstSeen(elements, TokenOf(components[j]))

-----------------------------------------------------------------------------
(* Order of the matcher's output *)

\* the positions in the scan of the elements detect emits, in scan order
EmittedIndices(d) ==
    SelectSeq([i \in 1..Len(d) |-> i],
              LAMBDA i : ElementGuard(d[i]) /\ Len(MatchedClasses(d[i])) > 0)

\* C11: the emitted elements are in the order of the DOM scan: the k-th
\* emitted element is the k-th element of the scan that is emitted at all, so
\* two emitted elements keep the relative order they have in the scan.
C11_OutputKeepsScanOrder ==
    AnalyzerRan =>
        LET idx == EmittedIndices(dom)
        IN  /\ Len(elements) = Len(idx)
            /\ \A k \in 1..Len(elements) :
                  /\ elements[k].classes = MatchedClasses(dom[idx[k]])
                  /\ elements[k].tagName = dom[idx[k]].tagName
                  /\ elements[k].isVisible =
                        (dom[idx[k]].rect.width > 0 /\ dom[idx[k]].rect.height > 0)
                  /\ elements[k].position.width = (dom[idx[k]].rect.width + 1) \div 2
                  /\ elements[k].position.height = (dom[idx[k]].rect.height + 1) \div 2

\* two emitted elements that differ, so that their order shows
C11_Witness ==
    /\ pc = "done"
    /\ Len(result.elements) = 2
    /\ result.elements[1].classes # result.elements[2].classes
    /\ result.elements[1].position # result.elements[2].position

-----------------------------------------------------------------------------
(* Monotonicity of the reported coverage *)

Rects == {RectA, RectB, RectC, RectZ}

RawArea(r) == r.width * r.height

\* the scans that differ from d only in that elements have grown
Grown(d) ==
    { [i \in 1..Len(d) |-> [d[i] EXCEPT !.rect = g[i]]] :
        g \in { f \in [1..Len(d) -> Rects] :
                  \A i \in 1..Len(d) : RawArea(f[i]) >= RawArea(d[i].rect) } }

\* a <= b for finite numbers
Leq(a, b) == a.kind = "fin" /\ b.kind = "fin" /\ a.num * b.den <= b.num * a.den

\* what analyzePage reports as totalCoveragePercent for scan d
ReportedCoverage(d, w, dc) ==
    RoundTenths(CoveragePercent(DetectScan(d, w, 1, <<>>, 0).totalArea, PageArea(dc)))

\* C12: with a fixed positive page area, the reported totalCoveragePercent
\* (rounded to one decimal) of the page is not larger than the one reported
\* for any page whose elements are the same except that their areas are not
\* smaller.
C12_CoverageMonotone ==
    (pc = "done" /\ PageArea(doc) > 0) =>
        \A d2 \in Grown(dom) :
            Leq(result.totalCoveragePercent, ReportedCoverage(d2, win, doc))

\* a matched element that can grow, and growing it raises the reported value
C12_Witness ==
    /\ pc = "done"
    /\ PageArea(doc) > 0
    /\ result.elementCount > 0
    /\ \E d2 \in Grown(dom) :
          /\ DetectScan(d2, win, 1, <<>>, 0).totalArea > totalArea
          /\ ReportedCoverage(d2, win, doc) # result.totalCoveragePercent
          /\ ReportedCoverage(d2, win, doc) #
                CoveragePercent(DetectScan(d2, win, 1, <<>>, 0).totalArea, PageArea(doc))

-----------------------------------------------------------------------------
(* Properties of the cross-viewport analysis *)

\* the indices of the viewports of a page result that have an analysis
Succeeded(r) ==
    {i \in 1..Len(r.viewportResults) : r.viewportResults[i].analysis # Null}

IsFailureObject(a) == DOMAIN a = {"error"}

AnalysisFields ==
    {"coverageVariance", "elementCountVariance", "componentConsistency",
     "viewportSpecificComponents", "responsiveAdoptionScore"}

StatsFields == {"min", "max", "average", "range"}

\* C13: a page's crossViewportAnalysis is the failure object (an error field
\* and no result field) if and only if no viewport of the page has a non-null
\* analysis; otherwise it has every result field and no error field.
C13_FailureObjectIffNoSuccess ==
    \A k \in 1..Len(results) :
        LET r == results[k]
            a == r.crossViewportAnalysis
        IN  /\ IsFailureObject(a) <=> Succeeded(r) = {}
            /\ "error" \in DOMAIN a => IsFailureObject(a)
            /\ ~IsFailureObject(a) =>
                  /\ DOMAIN a = AnalysisFields
                  /\ DOMAIN a.coverageVariance = StatsFields
                  /\ DOMAIN a.elementCountVariance = StatsFields

\* one page with no successful viewport next to a page where one viewport
\* failed and one succeeded
C13_Witness ==
    /\ Len(results) = 2
    /\ IsFailureObject(results[1].crossViewportAnalysis)
    /\ Len(results[1].viewportResults) = 2
    /\ Cardinality(Succeeded(results[2])) = 1
    /\ Len(results[2].viewportResults) = 2
    /\ ~IsFailureObject(results[2].crossViewportAnalysis)

\* a finite one-decimal number in tenths
Tenths(v) == (v.num * 10) \div v.den

RECURSIVE SumInts(_, _)
SumInts(S, f) ==
    IF S = {} THEN 0
    ELSE LET x == CHOOSE y \in S : TRUE IN f[x] + SumInts(S \ {x}, f)

\* stats is { min, max, average, range } of the numbers value[i], i in S
StatsOver(stats, S, value) ==
    /\ \E i \in S : value[i] = stats.min
    /\ \A i \in S : ~JSLess(value[i], stats.min)
    /\ \E i \in S : value[i] = stats.max
    /\ \A i \in S : ~JSLess(stats.max, value[i])
    /\ stats.average.kind # "NaN"
    /\ ~JSLess(stats.average, stats.min)
    /\ ~JSLess(stats.max, stats.average)
    /\ IF \A i \in S : value[i].kind = "fin"
       THEN /\ stats.average.kind = "fin"
            /\ stats.average.num * 10 * Cardinality(S) =
                  stats.average.den * SumInts(S, [i \in S |-> Tenths(value[i])])
            /\ stats.range.kind = "fin"
            /\ stats.range.num * 10 =
                  stats.range.den * (Tenths(stats.max) - Tenths(stats.min))
       ELSE /\ stats.average = Infinity
            /\ stats.range = JSSub(stats.max, stats.min)

TopOf(r, i) == Members(r.viewportResults[i].analysis.topComponents)

\* C15: the keys of componentConsistency are exactly the tokens found in the
\* topComponents of at least one viewport with an analysis, each once, and
\* each value is (number of such viewports whose topComponents has the token)
\* / (number of such viewports), so it is above 0 and at most 1.
C15_ConsistencyIsShareOfSuccessful ==
    \A k \in 1..Len(results) :
        LET r == results[k]
            a == r.crossViewportAnalysis
            S == Succeeded(r)
        IN  ~IsFailureObject(a) =>
              LET cc == a.componentConsistency
              IN  /\ {cc[n].key : n \in 1..Len(cc)} = UNION {TopOf(r, i) : i \in S}
                  /\ \A n \in 1..Len(cc) : \A m \in 1..Len(cc) :
                        cc[n].key = cc[m].key => n = m
                  /\ \A n \in 1..Len(cc) :
                        /\ cc[n].value.kind = "fin"
                        /\ cc[n].value.num * Cardinality(S) =
                              cc[n].value.den * Cardinality({i \in S : cc[n].key \in TopOf(r, i)})
                        /\ cc[n].value.num > 0
                        /\ cc[n].value.num <= cc[n].value.den

\* a failed viewport, a token every other viewport has and a token only one
\* of them has
C15_Witness ==
    /\ Len(results) = 1
    /\ Len(results[1].viewportResults) = 3
    /\ Cardinality(Succeeded(results[1])) = 2
    /\ LET cc == results[1].crossViewportAnalysis.componentConsistency
       IN  /\ \E n \in 1..Len(cc) : cc[n].value = Num(1)
           /\ \E n \in 1..Len(cc) : cc[n].value = Fin(1, 2)

\* token t is listed under viewport name v in the map vsc
Listed(vsc, v, t) ==
    \E n \in 1..Len(vsc) : vsc[n].key = v /\ t \in Members(vsc[n].value)

\* C16: a token is listed in viewportSpecificComponents[v] if and only if v
\* has an analysis whose topComponents holds the token and no other viewport
\* with an analysis holds it; so no token is listed under two viewports, a
\* failed viewport is no key, and every key lists at least one token.
C16_SpecificIffInOneSuccessful ==
    \A k \in 1..Len(results) :
        LET r == results[k]
            a == r.crossViewportAnalysis
            S == Succeeded(r)
        IN  ~IsFailureObject(a) =>
              LET vsc == a.viewportSpecificComponents
                  universe == UNION {TopOf(r, i) : i \in S}
                                \cup UNION {Members(vsc[n].value) : n \in 1..Len(vsc)}
              IN  /\ \A i \in 1..Len(r.viewportResults) : \A t \in universe :
                        Listed(vsc, r.viewportResults[i].name, t) <=>
                            /\ i \in S
                            /\ t \in TopOf(r, i)
                            /\ \A j \in S \ {i} : t \notin TopOf(r, j)
                  /\ \A n \in 1..Len(vsc) :
                        /\ Len(vsc[n].value) > 0
                        /\ \E i \in S : r.viewportResults[i].name = vsc[n].key
                        /\ \A m \in 1..Len(vsc) :
                              (m # n) => Members(vsc[n].value) \cap Members(vsc[m].value) = {}

\* three viewports, one failed; one of the others has a token of its own
\* and shares another token, which is listed nowhere
C16_Witness ==
    /\ Len(results) = 1
    /\ Len(results[1].viewportResults) = 3
    /\ Cardinality(Succeeded(results[1])) = 2
    /\ LET r == results[1]
           vsc == r.crossViewportAnalysis.viewportSpecificComponents
       IN  /\ Len(vsc) = 1
           /\ \E i \in Succeeded(r) : \E t \in TopOf(r, i) :
                 \A v \in {"mobile", "tablet", "desktop"} : ~Listed(vsc, v, t)

\* max(0, 1 - V / 100) for the population variance V of the one-decimal
\* numbers value[i], i in S, computed in integers:
\* V = (n * sum of t^2 - (sum of t)^2) / (100 * n^2) with t in tenths
ExpectedScore(S, value) ==
    LET n == Cardinality(S)
        t == [i \in S |-> Tenths(value[i])]
        w == n * SumInts(S, [i \in S |-> t[i] * t[i]]) - SumInts(S, t) * SumInts(S, t)
    IN  Fin(Max(0, 10000 * n * n - w), 10000 * n * n)

\* the responsiveAdoptionScore of page result r is what C17 says
ScoreAsClaimed(r) ==
    LET a == r.crossViewportAnalysis
        S == Succeeded(r)
        value == [i \in S |-> r.viewportResults[i].analysis.totalCoveragePercent]
        score == a.responsiveAdoptionScore
    IN  /\ score.kind = "fin"
        /\ 0 <= score.num
        /\ score.num <= score.den
        /\ Cardinality(S) < 2 => score = Zero
        /\ Cardinality(S) >= 2 =>
              /\ (\A i \in S : value[i].kind = "fin") => score = ExpectedScore(S, value)
              /\ score = Num(1) <=> \A i \in S : \A j \in S : value[i] = value[j]
              /\ {value[i] : i \in S} = {Num(20), Num(30)} /\ Cardinality(S) = 2 =>
                    score = Fin(3, 4)

\* C17: responsiveAdoptionScore is 0 when fewer than two viewports have an
\* analysis and otherwise max(0, 1 - V/100) for the population variance V of
\* their totalCoveragePercent values; it lies in [0,1] and is 1 exactly when
\* all those coverages are equal (coverages 20 and 30 give 0.75).
C17_ResponsiveScore ==
    \A k \in 1..Len(results) :
        ~IsFailureObject(results[k].crossViewportAnalysis) => ScoreAsClaimed(results[k])

\* C17 for the pages none of whose viewports reports an infinite coverage
C17_ResponsiveScoreOfFiniteCoverages ==
    \A k \in 1..Len(results) :
        LET r == results[k]
        IN  (/\ ~IsFailureObject(r.crossViewportAnalysis)
             /\ \A i \in Succeeded(r) :
                   r.viewportResults[i].analysis.totalCoveragePercent.kind = "fin")
            => ScoreAsClaimed(r)

\* coverages 20 and 30 on the two viewports of one page, and a page of three
\* different coverages
C17_WitnessFinite ==
    /\ Len(results) = 2
    /\ Cardinality(Succeeded(results[1])) = 2
    /\ results[1].crossViewportAnalysis.responsiveAdoptionScore = Fin(3, 4)
    /\ Cardinality(Succeeded(results[2])) = 2
    /\ results[2].crossViewportAnalysis.responsiveAdoptionScore = Num(1)

-----------------------------------------------------------------------------
(* Properties of the formatters *)

SummaryFields == {"url", "pageType", "section", "tplCoverage", "elementCount", "topComponents"}

\* C18: the fields of formatDetailedResults other than _detailed are exactly
\* the object formatPageSummary returns for the same (url, pageConfig,
\* analysis), and each metric is the analysis's own value: tplCoverage =
\* analysis.totalCoveragePercent = _detailed.totalCoveragePercent, and
\* elementCount and topComponents are the same in both places.
C18_DetailedExtendsSummary ==
    /\ pageSummary # Null =>
          /\ DOMAIN pageSummary = SummaryFields
          /\ pageSummary.url = formatInput.url
          /\ pageSummary.pageType = formatInput.pageConfig.type
          /\ pageSummary.section = formatInput.pageConfig.section
          /\ pageSummary.tplCoverage = formatInput.analysis.totalCoveragePercent
          /\ pageSummary.elementCount = formatInput.analysis.elementCount
          /\ pageSummary.topComponents = formatInput.analysis.topComponents
    /\ detailedData # Null =>
          /\ DOMAIN detailedData = SummaryFields \cup {"_detailed"}
          /\ detailedData.tplCoverage = formatInput.analysis.totalCoveragePercent
          /\ detailedData._detailed.totalCoveragePercent =
                formatInput.analysis.totalCoveragePercent
          /\ detailedData._detailed.viewportCoveragePercent =
                formatInput.analysis.viewportCoveragePercent
          /\ detailedData.elementCount = formatInput.analysis.elementCount
          /\ detailedData._detailed.elementCount = formatInput.analysis.elementCount
          /\ detailedData.topComponents = formatInput.analysis.topComponents
          /\ detailedData._detailed.topComponents = formatInput.analysis.topComponents
          /\ detailedData._detailed.components = formatInput.analysis.components
          /\ detailedData._detailed.elements = formatInput.analysis.elements
    /\ (pageSummary # Null /\ detailedData # Null) =>
          \A f \in SummaryFields : detailedData[f] = pageSummary[f]

\* both formatters called on an analysis whose two percentages differ, with a
\* url that is not the configured one
C18_Witness ==
    /\ pageSummary # Null
    /\ detailedData # Null
    /\ formatInput.analysis.elementCount > 0
    /\ formatInput.analysis.totalCoveragePercent # formatInput.analysis.viewportCoveragePercent
    /\ formatInput.url # formatInput.pageConfig.url

-----------------------------------------------------------------------------
(* Properties of the collection run *)

\* collectAllData has returned
Collected == step \in {"collected", "saved", "summarized", "finished"}

\* a viewport entry holds an analysis, or an error message and a null analysis
WellFormedEntry(e) ==
    \/ e.analysis # Null /\ "error" \notin DOMAIN e
    \/ e.analysis = Null /\ "error" \in DOMAIN e

\* page result r has one entry per configured viewport, in order
CoversViewports(r) ==
    /\ Len(r.viewportResults) = Len(config.viewports)
    /\ \A i \in 1..Len(r.viewportResults) :
          /\ r.viewportResults[i].name = config.viewports[i].key
          /\ WellFormedEntry(r.viewportResults[i])

\* run() caught an exception thrown out of collectAllData (not one of init,
\* loadConfig, saveRawData or generateDailySummary)
CollectionAborted ==
    /\ step \in {"failed", "exited"}
    /\ config # Null
    /\ Len(results) < Len(config.pages)

\* C19: a failure while opening, rendering, analysing or closing the page of
\* one (page, viewport) unit never aborts the other units: collectAllData is
\* never left through an exception, every page result has an entry for every
\* configured viewport, and collectAllData returns one result per page.
C19_FailureNeverAborts ==
    /\ ~CollectionAborted
    /\ \A k \in 1..Len(results) : CoversViewports(results[k])
    /\ Collected => Len(results) = Len(config.pages)

\* what holds of the failures raised inside the try block: whenever
\* collectAllData returns, the results are complete
CaughtFailuresAreRecorded ==
    /\ \A k \in 1..Len(results) : CoversViewports(results[k])
    /\ Collected => Len(results) = Len(config.pages)

\* a run that got through although navigation failed for one viewport and the
\* analysis for another
CaughtFailuresWitness ==
    /\ Collected
    /\ \E k \in 1..Len(results) :
          /\ \E i \in 1..Len(results[k].viewportResults) :
                /\ results[k].viewportResults[i].analysis = Null
                /\ results[k].viewportResults[i].error = "Navigation timeout"
          /\ \E i \in 1..Len(results[k].viewportResults) :
                /\ results[k].viewportResults[i].analysis = Null
                /\ results[k].viewportResults[i].error = "Evaluation failed"

\* the page results that count for viewport name v: the page has a
\* cross-viewport analysis and its entry for v has an analysis
Contributors(v) ==
    {k \in 1..Len(results) :
        /\ ~IsFailureObject(results[k].crossViewportAnalysis)
        /\ \E i \in 1..Len(results[k].viewportResults) :
              /\ results[k].viewportResults[i].name = v
              /\ results[k].viewportResults[i].analysis # Null}

\* totalCoveragePercent of page result k under viewport v
CoverageUnder(k, v) ==
    ViewportResultOf(results[k].viewportResults, v).analysis.totalCoveragePercent

\* the members of the set of indices S in increasing order
RECURSIVE Ascending(_)
Ascending(S) ==
    IF S = {} THEN <<>>
    ELSE LET m == CHOOSE x \in S : \A y \in S : x <= y
         IN  <<m>> \o Ascending(S \ {m})

\* C20: a page whose crossViewportAnalysis is the failure object is in no
\* part of the daily summary: it is in no viewport's pages or
\* averageCoverage, not in totalPagesAnalyzed and not in
\* overallResponsiveScore; and a failed viewport of a page that is summarized
\* adds nothing to that viewport's pages or average.  Without any page to
\* summarize there is no summary.
C20_SummaryLeavesOutFailures ==
    step \in {"summarized", "finished"} =>
        LET good == {k \in 1..Len(results) : ~IsFailureObject(results[k].crossViewportAnalysis)}
        IN  IF good = {} THEN summary = Null
            ELSE /\ summary # Null
                 /\ summary.totalPagesAnalyzed = Cardinality(good)
                 /\ summary.crossViewportInsights.overallResponsiveScore =
                       LET order == Ascending(good)
                       IN  RoundHundredths(JSDivBy(
                               SumOf([n \in 1..Len(order) |->
                                        results[order[n]].crossViewportAnalysis
                                            .responsiveAdoptionScore]),
                               Len(order)))
                 /\ \A i \in 1..Len(config.viewports) :
                       LET v == config.viewports[i].key
                           C == Contributors(v)
                           order == Ascending(C)
                           entries == {n \in 1..Len(summary.viewportSummaries) :
                                          summary.viewportSummaries[n].key = v}
                       IN  IF C = {} THEN entries = {}
                           ELSE /\ Cardinality(entries) = 1
                                /\ \A n \in entries :
                                      LET vs == summary.viewportSummaries[n].value
                                      IN  /\ vs.totalPagesAnalyzed = Cardinality(C)
                                          /\ Len(vs.pages) = Cardinality(C)
                                          /\ \A m \in 1..Len(vs.pages) :
                                                /\ vs.pages[m].url =
                                                      results[order[m]].pageConfig.url
                                                /\ vs.pages[m].tplCoverage =
                                                      CoverageUnder(order[m], v)
                                          /\ IF \A k \in C : CoverageUnder(k, v).kind = "fin"
                                             THEN vs.averageCoverage =
                                                    JSDiv(RoundDiv(
                                                        SumInts(C, [k \in C |->
                                                            Tenths(CoverageUnder(k, v))]),
                                                        Cardinality(C)), 10)
                                             ELSE vs.averageCoverage = Infinity

\* two pages: the first has no successful viewport, the second has one
\* failed and one successful viewport; the summary counts one page and has
\* one viewport summary
C20_Witness ==
    /\ step = "summarized"
    /\ Len(results) = 2
    /\ IsFailureObject(results[1].crossViewportAnalysis)
    /\ ~IsFailureObject(results[2].crossViewportAnalysis)
    /\ results[2].viewportResults[1].analysis = Null
    /\ summary # Null
    /\ summary.totalPagesAnalyzed = 1
    /\ Len(summary.viewportSummaries) = 1
    /\ summary.viewportSummaries[1].key = "desktop"
    /\ summary.viewportSummaries[1].value.averageCoverage = Num(30)

-----------------------------------------------------------------------------
(* One browser page at a time *)

\* C21: pages and viewports are visited strictly one at a time: at most one
\* browser page is open at any moment of a collection run, and whenever the
\* collector is about to open a page, or has left the viewport loop, every
\* page opened before is closed, after a recorded failure as after a success.
C21_OnePageAtATime ==
    /\ openPages <= 1
    /\ step \in {"newPage", "return", "collected", "saved", "summarized"} => openPages = 0
    /\ openPages = 1 <=> page # Null

\* the third page of a run is open after the first unit failed and the second
\* succeeded, each page closed before the next was opened
C21_Witness ==
    /\ step = "try"
    /\ openPages = 1
    /\ Len(viewportResults) = 2
    /\ viewportResults[1].analysis = Null
    /\ viewportResults[2].analysis # Null

-----------------------------------------------------------------------------
(* Release of the browser at the end of run() *)

\* the process of run() has ended: after the finally block, or through
\* process.exit(1) in the catch block
Terminated == step \in {"finished", "exited"}

\* C28: on every path by which run() ends (success, or a failure thrown by
\* init, loadConfig, collection or saving) the browser that was launched has
\* been closed by cleanup() when the process terminates.
C28_BrowserClosedOnEveryPath ==
    Terminated => browser \in {"null", "closed"}

-----------------------------------------------------------------------------
(* The analyzer keeps nothing between calls *)

\* the entry analyzePage has just produced for the page that is still open
JustAnalysed ==
    /\ step = "finally"
    /\ page # Null
    /\ page.state = "loaded"
    /\ Len(viewportResults) = viewportIndex
    /\ viewportResults[viewportIndex].analysis # Null

\* C22: the analyzer holds no cross-call state: whatever pages and viewports
\* were analysed before, analyzePage returns for a snapshot what a newly
\* constructed analyzer returns for it, with no element or area of an earlier
\* call in it, and the analyzer instance is left as it was constructed.
C22_NoCrossCallState ==
    /\ analyzer = NewTPLAnalyzer
    /\ JustAnalysed =>
          LET fresh == AnalyzePageCall(NewTPLAnalyzer, page.dom, page.win, page.doc).analysis
              got == viewportResults[viewportIndex].analysis
          IN  /\ got = fresh
              /\ got.elementCount = Len(DetectScan(page.dom, page.win, 1, <<>>, 0).elements)

\* a page with one matching element is analysed right after a page with three
\* matching elements was analysed in the same run
C22_Witness ==
    /\ JustAnalysed
    /\ viewportIndex = 2
    /\ viewportResults[1].analysis # Null
    /\ viewportResults[1].analysis.elementCount = 3
    /\ viewportResults[2].analysis.elementCount = 1

-----------------------------------------------------------------------------
(* collect-data.js: the daily summary of the single-viewport collector *)

MaxPages == 2

\* const highThreshold = config.coverage?.high || 20
HighDefault == 20

\* const mediumThreshold = config.coverage?.medium || 10
MediumDefault == 10

\* value || fallback for a threshold; 0 stands for a missing or zero entry
OrDefault(value, fallback) == IF value = 0 THEN fallback ELSE value

\* a >= b
JSGeq(a, b) == a.kind # "NaN" /\ b.kind # "NaN" /\ ~JSLess(a, b)

\* a <= b
JSLeq(a, b) == a.kind # "NaN" /\ b.kind # "NaN" /\ ~JSLess(b, a)

\* results.filter(r => r.results !== null)
SuccessfulPages(allResults) == SelectSeq(allResults, LAMBDA r : r.results # Null)

\* successfulResults.map(result => this.analyzer.formatPageSummary(...))
PageSummaries(successfulResults) ==
    [i \in 1..Len(successfulResults) |->
        FormatPageSummary(successfulResults[i].pageConfig.url,
                          successfulResults[i].pageConfig,
                          successfulResults[i].results)]

\* componentFrequency[component] = (componentFrequency[component] || 0) + 1
AddFrequency(frequency, component) ==
    IF \E i \in 1..Len(frequency) : frequency[i].name = component
    THEN [i \in 1..Len(frequency) |->
             IF frequency[i].name = component
             THEN [frequency[i] EXCEPT !.frequency = @ + 1]
             ELSE frequency[i]]
    ELSE Append(frequency, [name |-> component, frequency |-> 1])

\* page.topComponents.forEach(...)
RECURSIVE AddFrequencies(_, _)
AddFrequencies(frequency, comps) ==
    IF comps = <<>> THEN frequency
    ELSE AddFrequencies(AddFrequency(frequency, comps[1]), SubSeq(comps, 2, Len(comps)))

\* pages.forEach(page => ...): the entries of componentFrequency in insertion order
RECURSIVE ComponentFrequency(_)
ComponentFrequency(pages) ==
    IF pages = <<>> THEN <<>>
    ELSE AddFrequencies(ComponentFrequency(SubSeq(pages, 1, Len(pages) - 1)),
                        pages[Len(pages)].topComponents)

\* where c goes in a list sorted by falling frequency, behind its equals
InsertByFrequency(sorted, c) ==
    LET ahead == {i \in 1..Len(sorted) : sorted[i].frequency >= c.frequency}
        k == IF ahead = {} THEN 0 ELSE CHOOSE i \in ahead : \A j \in ahead : j <= i
    IN  SubSeq(sorted, 1, k) \o <<c>> \o SubSeq(sorted, k + 1, Len(sorted))

\* .sort((a, b) => b.frequency - a.frequency)
RECURSIVE SortByFrequency(_, _)
SortByFrequency(list, sorted) ==
    IF list = <<>> THEN sorted
    ELSE SortByFrequency(SubSeq(list, 2, Len(list)), InsertByFrequency(sorted, list[1]))

\* coverageDistribution = { high: ..., medium: ..., low: ... }
CoverageDistribution(pages, coverage) ==
    LET highThreshold == OrDefault(coverage.high, HighDefault)
        mediumThreshold == OrDefault(coverage.medium, MediumDefault)
        count(T(_)) == Cardinality({i \in 1..Len(pages) : T(pages[i].tplCoverage)})
    IN  [ high   |-> count(LAMBDA c : JSLess(Num(highThreshold), c)),
          medium |-> count(LAMBDA c : JSGeq(c, Num(mediumThreshold))
                                      /\ JSLeq(c, Num(highThreshold))),
          low    |-> count(LAMBDA c : JSLess(c, Num(mediumThreshold))) ]

\* generateDailySummary(results, config) of collect-data.js: the summary
\* written, Null when no page was analysed
SingleViewDailySummary(allResults, cfg) ==
    LET successfulResults == SuccessfulPages(allResults)
        pages == PageSummaries(successfulResults)
        totalCoverage == SumOf([i \in 1..Len(pages) |-> pages[i].tplCoverage])
    IN  IF Len(successfulResults) = 0 THEN Null
        ELSE [ pages |-> pages,
               aggregates |->
                 [ averageCoverage      |-> RoundTenths(JSDivBy(totalCoverage, Len(pages))),
                   totalPagesAnalyzed   |-> Len(pages),
                   mostUsedComponents   |-> SortByFrequency(ComponentFrequency(pages), <<>>),
                   coverageDistribution |-> CoverageDistribution(pages, cfg.coverage) ] ]

\* config.coverage of config/pages.yml: no entry, a high entry alone, both
\* entries in either order
CoverageConfigs ==
    { [high |-> h, medium |-> m] : h \in {0, 5, 20, 30}, m \in {0, 10, 25} }

\* the window of page.setViewport in collect-data.js, in the units of the
\* renderings
SingleViewWindow == [innerWidth |-> 12, innerHeight |-> 8, scrollX |-> 0, scrollY |-> 0]

\* what analyzePage(pageConfig) of collect-data.js returns for a page
PageResults(pageConfig) ==
    { [pageConfig |-> pageConfig,
       results    |-> AnalyzePage(r.dom, SingleViewWindow, r.doc)] : r \in Renderings }
    \cup
    { [pageConfig |-> pageConfig, error |-> "Navigation timeout", results |-> Null] }

\* config.pages of config/pages.yml
PageLists == {q \in SeqsUpTo({PageHome, PageArticle}, MaxPages) : Len(q) >= 1}

\* loadConfig() and collectAllData(config): one result per configured page
CollectSingleView ==
    /\ dataStep = "constructed"
    /\ \E coverage \in CoverageConfigs, pages \in PageLists :
          /\ dataConfig' = [pages |-> pages, coverage |-> coverage]
          /\ \E rs \in [1..Len(pages) -> UNION {PageResults(pg) : pg \in {PageHome, PageArticle}}] :
                /\ \A i \in 1..Len(pages) : rs[i].pageConfig = pages[i]
                /\ dataResults' = rs
    /\ dataStep' = "collected"
    /\ UNCHANGED dailySummary
    /\ UNCHANGED <<analyzerVars, collectorVars, formatterVars, coverageRunVars, apiVars, loopVars>>

\* generateDailySummary(results, config)
GenerateSingleViewSummary ==
    /\ dataStep = "collected"
    /\ dailySummary' = SingleViewDailySummary(dataResults, dataConfig)
    /\ dataStep' = "summarized"
    /\ UNCHANGED <<dataConfig, dataResults>>
    /\ UNCHANGED <<analyzerVars, collectorVars, formatterVars, coverageRunVars, apiVars, loopVars>>

SummaryNext ==
    \/ CollectSingleView
    \/ GenerateSingleViewSummary

SummarySpec == Init /\ [][SummaryNext]_vars

-----------------------------------------------------------------------------
(* The coverage distribution of the single-viewport summary *)

\* the distribution has been computed for at least one page
Distributed == dataStep = "summarized" /\ dailySummary # Null

\* high + medium + low of the distribution written
DistributionTotal ==
    LET d == dailySummary.aggregates.coverageDistribution
    IN  d.high + d.medium + d.low

\* C29: for every configuration of the high and medium thresholds the
\* coverage distribution of the single-viewport daily summary is a partition
\* of the analysed pages: high + medium + low = totalPagesAnalyzed.
C29_DistributionIsPartition ==
    Distributed => DistributionTotal = dailySummary.aggregates.totalPagesAnalyzed

\* what holds of the distribution: it is a partition whenever the medium
\* threshold in force does not exceed the high one
PartitionWhenThresholdsOrdered ==
    Distributed /\ OrDefault(dataConfig.coverage.medium, MediumDefault)
                     <= OrDefault(dataConfig.coverage.high, HighDefault)
        => DistributionTotal = dailySummary.aggregates.totalPagesAnalyzed

\* two pages in different bands counted once each under ordered thresholds
PartitionWitness ==
    /\ Distributed
    /\ dataConfig.coverage = [high |-> 20, medium |-> 10]
    /\ dailySummary.aggregates.totalPagesAnalyzed = 2
    /\ dailySummary.aggregates.coverageDistribution = [high |-> 1, medium |-> 0, low |-> 1]

-----------------------------------------------------------------------------
(* collect-coverage.js: main() with collectCoverageData and sendToAPI *)

\* process.argv[2]
TargetUrls == {"https://www.nytimes.com/", "https://www.nytimes.com/article"}

\* process.env.VERCEL_API_ENDPOINT; "" stands for an unset variable
ApiEndpoints == {"", "https://tpl.example.app"}

\* new Date().toISOString()
Timestamps == {"2025-01-01T09:00:00.000Z", "2025-01-02T09:30:15.250Z"}

\* .replace(/[:.]/g, '-')
RECURSIVE ReplaceColonsAndDots(_)
ReplaceColonsAndDots(s) ==
    IF Len(s) = 0 THEN ""
    ELSE LET c == SubSeq(s, 1, 1)
         IN  (IF c = ":" \/ c = "." THEN "-" ELSE c) \o ReplaceColonsAndDots(SubSeq(s, 2, Len(s)))

\* `coverage-data-${new Date().toISOString().replace(/[:.]/g, '-')}.json`
LocalFilename(now) == "coverage-data-" \o ReplaceColonsAndDots(now) \o ".json"

\* what the two page.evaluate calls and the screenshot leave in coverageData
CollectedCoverage(url, now, d, w, dc) ==
    LET r == CoverageScan(d, 1, <<>>, 0)
    IN  [ url                     |-> url,
          timestamp               |-> now,
          totalElements           |-> Len(r.elements),
          totalCoveragePercent    |-> ToFixed2(JSDiv(r.totalArea * 100, 4 * PageArea(dc))),
          pageArea                |-> PageArea(dc),
          totalTPLArea            |-> r.totalArea,
          elements                |-> r.elements,
          viewport                |-> [width |-> w.innerWidth, height |-> w.innerHeight],
          viewportCoveragePercent |-> CoverageViewportPercent(d, w),
          screenshotPath          |-> "screenshots/tpl-coverage.png" ]

\* catch (error) { return { url, timestamp, error: error.message, success: false } }
CollectionFailure(url, now, message) ==
    [url |-> url, timestamp |-> now, error |-> message, success |-> FALSE]

\* variant: a rejected post is only logged
DestinationWithoutFallback(endpoint, posted) ==
    IF endpoint = "" THEN "local" ELSE IF posted THEN "api" ELSE "none"

\* where sendToAPI puts the data: a local file when no endpoint is configured
\* and in the catch block of the post, the API otherwise
Destination(endpoint, posted) ==
    IF endpoint = "" THEN "local" ELSE IF posted THEN "api" ELSE "local"

\* the window of initialize()'s page.setViewport, in the units of the renderings
CoverageWindow ==
    [innerWidth |-> CoverageViewport.width, innerHeight |-> CoverageViewport.height,
     scrollX |-> 0, scrollY |-> 0]

\* main(): the url argument is read and collector.initialize() launches the
\* browser and opens the page; a rejection is caught by main
Initialize ==
    /\ mainStep = "start"
    /\ \E u \in TargetUrls, e \in ApiEndpoints :
          /\ targetUrl' = u
          /\ apiEndpoint' = e
    /\ \/ openedPage' = [state |-> "blank"] /\ mainStep' = "initialized"
       \/ openedPage' = openedPage /\ mainStep' = "failed"
    /\ UNCHANGED <<returned, apiPosts, localFiles>>
    /\ UNCHANGED <<analyzerVars, collectorVars, formatterVars, summaryVars, apiVars, loopVars>>

\* collectCoverageData: page.goto and the wait inside the try block; a
\* rejection is caught and returned as a value
CoverageGoto ==
    /\ mainStep = "initialized"
    /\ \/ /\ \E r \in Renderings :
                openedPage' = [state |-> "loaded", dom |-> r.dom, doc |-> r.doc]
          /\ mainStep' = "loaded"
          /\ UNCHANGED returned
       \/ /\ \E now \in Timestamps :
                returned' = CollectionFailure(targetUrl, now, "Navigation timeout")
          /\ mainStep' = "returned"
          /\ UNCHANGED openedPage
    /\ UNCHANGED <<targetUrl, apiEndpoint, apiPosts, localFiles>>
    /\ UNCHANGED <<analyzerVars, collectorVars, formatterVars, summaryVars, apiVars, loopVars>>

\* collectCoverageData: the two page.evaluate calls and the screenshot inside
\* the try block; a rejection is caught and returned as a value
CoverageEvaluate ==
    /\ mainStep = "loaded"
    /\ \E now \in Timestamps :
          \/ returned' = CollectedCoverage(targetUrl, now, openedPage.dom, CoverageWindow,
                                           openedPage.doc)
          \/ returned' = CollectionFailure(targetUrl, now, "Evaluation failed")
    /\ mainStep' = "returned"
    /\ UNCHANGED <<targetUrl, apiEndpoint, openedPage, apiPosts, localFiles>>
    /\ UNCHANGED <<analyzerVars, collectorVars, formatterVars, summaryVars, apiVars, loopVars>>

\* sendToAPI(data): the local write when no endpoint is configured, else
\* axios.post, which resolves or rejects, with the local write in its catch
\* block
SendToAPI ==
    /\ mainStep = "returned"
    /\ \E posted \in BOOLEAN, now \in Timestamps :
          LET destination == Destination(apiEndpoint, posted)
          IN  /\ apiPosts' =
                    IF destination = "api"
                    THEN Append(apiPosts, [endpoint |-> apiEndpoint \o "/api/coverage",
                                           data |-> returned])
                    ELSE apiPosts
              /\ localFiles' =
                    IF destination = "local"
                    THEN Append(localFiles, [filename |-> LocalFilename(now), data |-> returned])
                    ELSE localFiles
    /\ mainStep' = "sent"
    /\ UNCHANGED <<targetUrl, apiEndpoint, openedPage, returned>>
    /\ UNCHANGED <<analyzerVars, collectorVars, formatterVars, summaryVars, apiVars, loopVars>>

\* finally { await collector.cleanup() }
CollectorCleanup ==
    /\ mainStep = "sent"
    /\ openedPage' = Null
    /\ mainStep' = "finished"
    /\ UNCHANGED <<targetUrl, apiEndpoint, returned, apiPosts, localFiles>>
    /\ UNCHANGED <<analyzerVars, collectorVars, formatterVars, summaryVars, apiVars, loopVars>>

\* catch (error) { console.error(...); process.exit(1) }
ExitMain ==
    /\ mainStep = "failed"
    /\ mainStep' = "exited"
    /\ UNCHANGED <<targetUrl, apiEndpoint, openedPage, returned, apiPosts, localFiles>>
    /\ UNCHANGED <<analyzerVars, collectorVars, formatterVars, summaryVars, apiVars, loopVars>>

CoverageRunNext ==
    \/ Initialize
    \/ CoverageGoto
    \/ CoverageEvaluate
    \/ SendToAPI
    \/ CollectorCleanup
    \/ ExitMain

CoverageRunSpec == Init /\ [][CoverageRunNext]_vars

-----------------------------------------------------------------------------
(* Failures as values and the fallback of sendToAPI *)

\* collectCoverageData has returned
HasReturned == mainStep \in {"returned", "sent", "finished"}

\* sendToAPI has returned
HasSent == mainStep \in {"sent", "finished"}

-----------------------------------------------------------------------------
(* The coverage API: handler, handlePost, handleGet, storeInDatabase *)

\* the 1000 of coverageDataStore.slice(-1000), scaled down
StoreLimit == 2

\* the number of requests one instance of the function answers
MaxRequests == 4

\* const { url, since, limit = 100 } = req.query
DefaultLimit == 100

\* process.env.DATABASE_URL; "" stands for an unset variable
DatabaseUrls == {"", "https://abc.supabase.co", "postgres://db.example.com/tpl"}

\* the value of a decimal digit
DigitValue(c) == CHOOSE n \in 0..9 : ToString(n) = c

\* the number written by a string of decimal digits
RECURSIVE ParseDigits(_)
ParseDigits(s) ==
    IF Len(s) = 0 THEN 0
    ELSE 10 * ParseDigits(SubSeq(s, 1, Len(s) - 1)) + DigitValue(SubSeq(s, Len(s), Len(s)))

\* new Date(timestamp) of an ISO timestamp, as the pair of its day and the
\* milliseconds into the day
DateOf(timestamp) ==
    [ day  |-> ParseDigits(SubSeq(timestamp, 1, 4)) * 10000
               + ParseDigits(SubSeq(timestamp, 6, 7)) * 100
               + ParseDigits(SubSeq(timestamp, 9, 10)),
      time |-> ((ParseDigits(SubSeq(timestamp, 12, 13)) * 60
                 + ParseDigits(SubSeq(timestamp, 15, 16))) * 60
                + ParseDigits(SubSeq(timestamp, 18, 19))) * 1000
               + ParseDigits(SubSeq(timestamp, 21, 23)) ]

\* new Date(a) >= new Date(b)
NotBefore(a, b) ==
    LET x == DateOf(a)
        y == DateOf(b)
    IN  x.day > y.day \/ (x.day = y.day /\ x.time >= y.time)

\* a totalElements that is not a number
NoCount == -1

\* POST requests: the body, whose url and timestamp may be missing ("") and
\* whose metrics may be missing (Null, NoCount), and the user-agent header
\* ("" when the request has none)
PostRequests ==
    { [ body |-> [url |-> "https://www.nytimes.com/", timestamp |-> "2025-01-01T09:00:00.000Z",
                  totalCoveragePercent |-> Fin(41, 2), totalElements |-> 3],
        userAgent |-> "axios/1.6.0" ],
      [ body |-> [url |-> "https://www.nytimes.com/article",
                  timestamp |-> "2025-01-02T09:30:15.250Z",
                  totalCoveragePercent |-> Null, totalElements |-> NoCount],
        userAgent |-> "" ],
      [ body |-> [url |-> "https://www.nytimes.com/", timestamp |-> "2025-01-02T09:30:15.250Z",
                  totalCoveragePercent |-> Fin(30, 1), totalElements |-> 4],
        userAgent |-> "axios/1.6.0" ],
      [ body |-> [url |-> "", timestamp |-> "2025-01-01T09:00:00.000Z",
                  totalCoveragePercent |-> Fin(41, 2), totalElements |-> 3],
        userAgent |-> "axios/1.6.0" ],
      [ body |-> [url |-> "https://www.nytimes.com/", timestamp |-> "",
                  totalCoveragePercent |-> Null, totalElements |-> NoCount],
        userAgent |-> "axios/1.6.0" ] }

\* GET queries; "" stands for a parameter left out
GetQueries ==
    { [url |-> "", since |-> "", limit |-> ""],
      [url |-> "https://www.nytimes.com/", since |-> "", limit |-> ""],
      [url |-> "", since |-> "2025-01-02T09:30:15.250Z", limit |-> ""],
      [url |-> "", since |-> "2025-01-01T09:00:00.000Z", limit |-> "1"] }

\* generateId(): a new id at every call
GenerateId(n) == "id" \o ToString(n + 1)

\* { ...coverageData, id, serverTimestamp, userAgent: req.headers['user-agent'] || 'unknown' };
\* the server's clock reads the number of the post
Enrich(body, n, userAgent) ==
    [ url                  |-> body.url,
      timestamp            |-> body.timestamp,
      totalCoveragePercent |-> body.totalCoveragePercent,
      totalElements        |-> body.totalElements,
      id                   |-> GenerateId(n),
      serverTimestamp      |-> n + 1,
      userAgent            |-> IF userAgent = "" THEN "unknown" ELSE userAgent ]

\* if (coverageDataStore.length > 1000) coverageDataStore = coverageDataStore.slice(-1000)
TrimStore(store) ==
    IF Len(store) > StoreLimit
    THEN SubSeq(store, Len(store) - StoreLimit + 1, Len(store))
    ELSE store

\* variant: the test of the first field alone
MissingUrl(body) == body.url = ""

\* !coverageData.url || !coverageData.timestamp
MissingRequiredFields(body) == body.url = "" \/ body.timestamp = ""

\* where c goes in a list sorted newest first, behind its equals
InsertByTimestamp(sorted, c) ==
    LET ahead == {i \in 1..Len(sorted) : NotBefore(sorted[i].timestamp, c.timestamp)}
        k == IF ahead = {} THEN 0 ELSE CHOOSE i \in ahead : \A j \in ahead : j <= i
    IN  SubSeq(sorted, 1, k) \o <<c>> \o SubSeq(sorted, k + 1, Len(sorted))

\* data.sort((a, b) => new Date(b.timestamp) - new Date(a.timestamp))
RECURSIVE SortNewestFirst(_, _)
SortNewestFirst(list, sorted) ==
    IF list = <<>> THEN sorted
    ELSE SortNewestFirst(SubSeq(list, 2, Len(list)), InsertByTimestamp(sorted, list[1]))

\* data.map(d => d.totalCoveragePercent).filter(v => typeof v === 'number')
CoverageValues(data) ==
    LET present == SelectSeq(data, LAMBDA d : d.totalCoveragePercent # Null)
    IN  [i \in 1..Len(present) |-> present[i].totalCoveragePercent]

\* data.map(d => d.totalElements).filter(v => typeof v === 'number')
ElementCountValues(data) ==
    LET present == SelectSeq(data, LAMBDA d : d.totalElements # NoCount)
    IN  [i \in 1..Len(present) |-> present[i].totalElements]

RECURSIVE SumInt(_)
SumInt(numbers) ==
    IF numbers = <<>> THEN 0
    ELSE SumInt(SubSeq(numbers, 1, Len(numbers) - 1)) + numbers[Len(numbers)]

\* calculateSummary(data)
CalculateSummary(data) ==
    IF Len(data) = 0 THEN [kind |-> "empty"]
    ELSE LET coverageValues == CoverageValues(data)
             elementCounts == ElementCountValues(data)
         IN  [ averageCoverage |->
                   IF Len(coverageValues) > 0
                   THEN ToFixed2(JSDivBy(SumOf(coverageValues), Len(coverageValues)))
                   ELSE Zero,
               maxCoverage |-> IF Len(coverageValues) > 0 THEN MaxOf(coverageValues) ELSE Zero,
               minCoverage |-> IF Len(coverageValues) > 0 THEN MinOf(coverageValues) ELSE Zero,
               averageElements |->
                   IF Len(elementCounts) > 0
                   THEN RoundDiv(SumInt(elementCounts), Len(elementCounts))
                   ELSE 0,
               totalDataPoints |-> Len(data),
               dateRange |-> [ earliest |-> data[Len(data)].timestamp,
                               latest   |-> data[1].timestamp ] ]

\* the module is loaded into a new instance of the function
LoadModule ==
    /\ databaseUrl = "unloaded"
    /\ \E d \in DatabaseUrls : databaseUrl' = d
    /\ UNCHANGED <<coverageDataStore, database, generated, handled, exchange>>
    /\ UNCHANGED <<analyzerVars, collectorVars, formatterVars, summaryVars, coverageRunVars,
                   loopVars>>

\* handler -> handlePost(req, res)
HandlePost ==
    /\ databaseUrl # "unloaded"
    /\ handled < MaxRequests
    /\ handled' = handled + 1
    /\ \E req \in PostRequests :
          LET before == [store |-> coverageDataStore, database |-> database]
              body == req.body
              enrichedData == Enrich(body, generated, req.userAgent)
              answer(status) == [method |-> "POST", body |-> body, status |-> status,
                                 before |-> before]
          IN  IF MissingRequiredFields(body)
              THEN /\ exchange' = answer(400)
                   /\ UNCHANGED <<coverageDataStore, database, generated>>
              ELSE /\ generated' = generated + 1
                   /\ IF databaseUrl # ""
                      THEN \* storeInDatabase(enrichedData)
                           IF Includes(databaseUrl, "supabase")
                           THEN \/ /\ database' = Append(database, enrichedData)
                                   /\ exchange' = answer(201)
                                   /\ UNCHANGED coverageDataStore
                                \/ \* if (error) throw error, caught by handler
                                   /\ exchange' = answer(500)
                                   /\ UNCHANGED <<coverageDataStore, database>>
                           ELSE /\ coverageDataStore' = Append(coverageDataStore, enrichedData)
                                /\ exchange' = answer(201)
                                /\ UNCHANGED database
                      ELSE /\ coverageDataStore' =
                                 TrimStore(Append(coverageDataStore, enrichedData))
                           /\ exchange' = answer(201)
                           /\ UNCHANGED database
    /\ UNCHANGED databaseUrl
    /\ UNCHANGED <<analyzerVars, collectorVars, formatterVars, summaryVars, coverageRunVars,
                   loopVars>>

\* handler -> handleGet(req, res)
HandleGet ==
    /\ databaseUrl # "unloaded"
    /\ handled < MaxRequests
    /\ handled' = handled + 1
    /\ \E query \in GetQueries :
          LET before == [store |-> coverageDataStore, database |-> database]
              url == query.url
              since == query.since
              limit == query.limit
              byUrl == IF url # ""
                       THEN SelectSeq(coverageDataStore, LAMBDA item : item.url = url)
                       ELSE coverageDataStore
              bySince == IF since # ""
                         THEN SelectSeq(byUrl, LAMBDA item : NotBefore(item.timestamp, since))
                         ELSE byUrl
              sorted == SortNewestFirst(bySince, <<>>)
              count == IF limit = "" THEN DefaultLimit ELSE ParseDigits(limit)
              data == SubSeq(sorted, 1, Min(count, Len(sorted)))
          IN  /\ \* data is the store itself unless a filter made a new array
                 coverageDataStore' =
                    IF url = "" /\ since = "" THEN sorted ELSE coverageDataStore
              /\ exchange' = [ method |-> "GET", status |-> 200, before |-> before,
                               data |-> data, summary |-> CalculateSummary(data),
                               total |-> Len(data) ]
    /\ UNCHANGED <<databaseUrl, database, generated>>
    /\ UNCHANGED <<analyzerVars, collectorVars, formatterVars, summaryVars, coverageRunVars,
                   loopVars>>

\* allowCors answers OPTIONS with 200; handler answers any other method with 405
HandleOther ==
    /\ databaseUrl # "unloaded"
    /\ handled < MaxRequests
    /\ handled' = handled + 1
    /\ \E method \in {"OPTIONS", "DELETE"} :
          exchange' = [ method |-> method,
                        status |-> IF method = "OPTIONS" THEN 200 ELSE 405,
                        before |-> [store |-> coverageDataStore, database |-> database] ]
    /\ UNCHANGED <<databaseUrl, coverageDataStore, database, generated>>
    /\ UNCHANGED <<analyzerVars, collectorVars, formatterVars, summaryVars, coverageRunVars,
                   loopVars>>

ApiNext ==
    \/ LoadModule
    \/ HandlePost
    \/ HandleGet
    \/ HandleOther

ApiSpec == Init /\ [][ApiNext]_vars

-----------------------------------------------------------------------------
(* Validation, storage and trimming in the coverage API *)

\* the request just answered was a POST
PostAnswered == exchange # Null /\ exchange.method = "POST"

\* the body of the POST just answered lacks url or timestamp
LacksRequired == exchange.body.url = "" \/ exchange.body.timestamp = ""

\* nothing stored has changed while the request was answered
StoredUnchanged ==
    /\ coverageDataStore = exchange.before.store
    /\ database = exchange.before.database

\* entry e is the body of the POST just answered, enriched
IsPostedEntry(e) ==
    /\ e.url = exchange.body.url
    /\ e.timestamp = exchange.body.timestamp
    /\ e.serverTimestamp = generated

\* list now is list before with one entry, made from the body of the POST just
\* answered, behind it, possibly less entries trimmed from its front
OneAppended(before, now) ==
    /\ Len(now) >= 1
    /\ IsPostedEntry(now[Len(now)])
    /\ \E dropped \in 0..Len(before) :
          SubSeq(now, 1, Len(now) - 1) = SubSeq(before, dropped + 1, Len(before))

\* exactly one entry was added to what is stored
OneEntryAdded ==
    \/ /\ OneAppended(exchange.before.store, coverageDataStore)
       /\ database = exchange.before.database
    \/ /\ OneAppended(exchange.before.database, database)
       /\ Len(database) = Len(exchange.before.database) + 1
       /\ coverageDataStore = exchange.before.store

\* C23 as stated: a POST whose body lacks url or timestamp is answered 400 and
\* leaves the stored data unchanged; a POST with both fields is answered 201
\* and adds exactly one entry.
C23_PostValidated ==
    PostAnswered =>
        IF LacksRequired
        THEN exchange.status = 400 /\ StoredUnchanged
        ELSE exchange.status = 201 /\ OneEntryAdded

\* C23 as amended: a POST whose body lacks url or timestamp is answered 400 and
\* leaves the stored data unchanged; a POST with both fields is answered 201
\* and adds exactly one entry, unless DATABASE_URL names Supabase and the
\* insert fails, when it is answered 500 and the stored data are unchanged.
C23_PostValidatedOrInsertFailed ==
    PostAnswered =>
        IF LacksRequired
        THEN exchange.status = 400 /\ StoredUnchanged
        ELSE \/ exchange.status = 201 /\ OneEntryAdded
             \/ /\ exchange.status = 500
                /\ Includes(databaseUrl, "supabase")
                /\ StoredUnchanged

\* a POST without timestamp is answered 400 by an instance whose store holds
\* two entries, and the store still holds them
C23_Witness ==
    /\ PostAnswered
    /\ exchange.body.url # ""
    /\ exchange.body.timestamp = ""
    /\ exchange.status = 400
    /\ Len(coverageDataStore) = 2
    /\ coverageDataStore = exchange.before.store

\* C24: after any interleaving of POST and GET requests the in-memory store
\* holds the most recently posted entries in the order they were posted
\* (trimming never discards a newer entry while keeping an older one), and a
\* GET request leaves the store's contents and order unchanged.
C24_StoreKeepsNewestAndGetReadsOnly ==
    /\ (exchange # Null /\ exchange.method = "GET") =>
          coverageDataStore = exchange.before.store
    /\ databaseUrl = "" =>
          \A i \in 1..Len(coverageDataStore) :
              coverageDataStore[i].serverTimestamp = generated - Len(coverageDataStore) + i

\* C25: whenever entries are kept in the in-memory store (no DATABASE_URL, or
\* the generic fallback of storeInDatabase), the store never holds more than
\* the limit of entries.
C25_StoreBounded ==
    Len(coverageDataStore) <= StoreLimit

\* what holds of the store when DATABASE_URL is not set: it never holds more
\* than the limit of entries
StoreBoundedWithoutDatabaseUrl ==
    databaseUrl = "" => Len(coverageDataStore) <= StoreLimit

\* an instance without DATABASE_URL has trimmed its store
StoreTrimmedWitness ==
    /\ databaseUrl = ""
    /\ PostAnswered
    /\ exchange.status = 201
    /\ Len(exchange.before.store) = StoreLimit
    /\ Len(coverageDataStore) = StoreLimit

-----------------------------------------------------------------------------
(* The local testing loop: LocalTesting.start and runCollection *)

\* the number of runs the loop gets to start
MaxRuns == 3

\* the number of times the interval timer fires
MaxTicks == 5

\* the exit codes of npm run collect-multiview
ExitCodes == {0, 1, 2}

\* variant: the test of the flag left out
NeverSkips(running) == FALSE

\* if (this.isRunning) { ...skipping...; return; }
Skips(running) == running

\* runCollection() past its guard: this.isRunning = true; this.runCount++;
\* spawn('npm', ['run', 'collect-multiview']).  When the child cannot be
\* spawned its 'error' event finds no listener and ends the process, with
\* isRunning still set
StartCollection ==
    /\ isRunning' = TRUE
    /\ runCount' = runCount + 1
    /\ spawnCalls' = spawnCalls + 1
    /\ \/ children' = children + 1 /\ loopStep' = IF loopStep = "constructed"
                                                  THEN "firstRun" ELSE loopStep
       \/ children' = children /\ loopStep' = "crashed"
    /\ UNCHANGED lastCode

\* start(): await this.runCollection(), the first run
Start ==
    /\ loopStep = "constructed"
    /\ StartCollection
    /\ UNCHANGED <<ticks, lastTick>>
    /\ UNCHANGED <<analyzerVars, collectorVars, formatterVars, summaryVars, coverageRunVars,
                   apiVars>>

\* child.on('close', (code) => { this.isRunning = false; ...; resolve(code) });
\* after the first run start() goes on to setInterval
ChildClose ==
    /\ loopStep \in {"firstRun", "interval"}
    /\ children > 0
    /\ \E code \in ExitCodes : lastCode' = code
    /\ isRunning' = FALSE
    /\ children' = children - 1
    /\ loopStep' = "interval"
    /\ UNCHANGED <<runCount, spawnCalls, ticks, lastTick>>
    /\ UNCHANGED <<analyzerVars, collectorVars, formatterVars, summaryVars, coverageRunVars,
                   apiVars>>

\* setInterval(async () => { await this.runCollection(); }, ...): one firing
\* of the timer
Tick ==
    /\ loopStep = "interval"
    /\ ticks < MaxTicks
    /\ ticks' = ticks + 1
    /\ IF Skips(isRunning)
       THEN /\ lastTick' = [duringRun |-> isRunning, started |-> FALSE,
                            runCountBefore |-> runCount, runCountAfter |-> runCount]
            /\ UNCHANGED <<loopStep, isRunning, runCount, spawnCalls, children, lastCode>>
       ELSE /\ runCount < MaxRuns
            /\ lastTick' = [duringRun |-> isRunning, started |-> TRUE,
                            runCountBefore |-> runCount, runCountAfter |-> runCount + 1]
            /\ StartCollection
    /\ UNCHANGED <<analyzerVars, collectorVars, formatterVars, summaryVars, coverageRunVars,
                   apiVars>>

\* Ctrl+C: process.on('SIGINT', ...) clears the interval and exits; before the
\* handler is installed the signal ends the process as well
Sigint ==
    /\ loopStep \in {"firstRun", "interval"}
    /\ loopStep' = "stopped"
    /\ UNCHANGED <<isRunning, runCount, spawnCalls, children, ticks, lastTick, lastCode>>
    /\ UNCHANGED <<analyzerVars, collectorVars, formatterVars, summaryVars, coverageRunVars,
                   apiVars>>

LoopNext ==
    \/ Start
    \/ ChildClose
    \/ Tick
    \/ Sigint

LoopSpec == Init /\ [][LoopNext]_vars

-----------------------------------------------------------------------------
(* One collection at a time in the local testing loop *)

\* C26: at most one collection child process runs at any time; a timer tick
\* that arrives while a run is in progress starts nothing and does not change
\* runCount; runCount always equals the number of runs started, that is of
\* calls of spawn.
C26_OneChildAndCountedRuns ==
    /\ children <= 1
    /\ runCount = spawnCalls
    /\ (lastTick # Null /\ lastTick.duringRun) =>
          /\ ~lastTick.started
          /\ lastTick.runCountAfter = lastTick.runCountBefore

\* a tick has arrived during the second run and was skipped: one child, two
\* runs counted
C26_Witness ==
    /\ lastTick # Null
    /\ lastTick.duringRun
    /\ children = 1
    /\ isRunning
    /\ runCount = 2
    /\ ticks >= 2

\* C27: every started collection run clears isRunning when it ends, whether
\* the child exits with code 0, exits with another code, or fails to be
\* spawned: isRunning is never left set without a child that will clear it, so
\* that a later timer tick can start a new run.
C27_IsRunningOnlyWhileChildRuns ==
    isRunning => children > 0

\* what holds of the runs whose child was spawned: while the process of the
\* loop lives, isRunning is set exactly while a child runs, and every close
\* has cleared it
SpawnedRunsClearIsRunning ==
    /\ loopStep \in {"firstRun", "interval"} => (isRunning <=> children = 1)
    /\ (loopStep = "interval" /\ ~isRunning /\ runCount > 0) => lastCode \in ExitCodes

\* a run that ended with a non-zero exit code has cleared isRunning and the
\* next tick has started a new run
SpawnedRunsWitness ==
    /\ loopStep = "interval"
    /\ lastCode = 2
    /\ lastTick # Null
    /\ lastTick.started
    /\ isRunning
    /\ runCount = 2

====
